---- MODULE Spec2Model ----
(***************************************************************************)
(* A model of the antvis/expr expression evaluator: tokenizer, parser,     *)
(* tree-walking interpreter, function registry and the configuration /     *)
(* blacklist layer in front of them.                                       *)
(*                                                                         *)
(* Source text and every string value are sequences of one-character       *)
(* strings, so that tokenizing, word-boundary matching and string          *)
(* conversions are computed character by character.                        *)
(***************************************************************************)
EXTENDS Integers, Sequences, FiniteSets, TLC

(***************************************************************************)
(* String literals of the program and of the host environment.             *)
(***************************************************************************)
Word ==
  [ constructor |-> <<"c","o","n","s","t","r","u","c","t","o","r">>,
    proto       |-> <<"_","_","p","r","o","t","o","_","_">>,
    prototype   |-> <<"p","r","o","t","o","t","y","p","e">>,
    this        |-> <<"t","h","i","s">>,
    window      |-> <<"w","i","n","d","o","w">>,
    global      |-> <<"g","l","o","b","a","l">>,
    eval        |-> <<"e","v","a","l">>,
    Function    |-> <<"F","u","n","c","t","i","o","n">>,
    toString    |-> <<"t","o","S","t","r","i","n","g">>,
    valueOf     |-> <<"v","a","l","u","e","O","f">>,
    length      |-> <<"l","e","n","g","t","h">>,
    true        |-> <<"t","r","u","e">>,
    false       |-> <<"f","a","l","s","e">>,
    null        |-> <<"n","u","l","l">>,
    undefined   |-> <<"u","n","d","e","f","i","n","e","d">>,
    NaN         |-> <<"N","a","N">>,
    Infinity    |-> <<"I","n","f","i","n","i","t","y">>,
    objectObject    |-> <<"[","o","b","j","e","c","t"," ","O","b","j","e","c","t","]">>,
    \* the source text of a host function, which is not modelled further
    nativeCode |-> <<"f","u","n","c","t","i","o","n"," ","(",")"," ","{"," ","[","n","a","t","i",
                     "v","e"," ","c","o","d","e","]"," ","}">>,
    objectUndefined |-> <<"[","o","b","j","e","c","t"," ","U","n","d","e","f","i","n","e","d","]">>,
    abs   |-> <<"a","b","s">>,
    ceil  |-> <<"c","e","i","l">>,
    floor |-> <<"f","l","o","o","r">>,
    max   |-> <<"m","a","x">>,
    min   |-> <<"m","i","n">>,
    round |-> <<"r","o","u","n","d">>,
    sqrt  |-> <<"s","q","r","t">>,
    pow   |-> <<"p","o","w">>,
    boom  |-> <<"b","o","o","m">>,
    f     |-> <<"f">>,
    a     |-> <<"a">>,
    b     |-> <<"b">>,
    x     |-> <<"x">>,
    y     |-> <<"y">>,
    z     |-> <<"z">>,
    k     |-> <<"k">> ]

Digits == <<"0","1","2","3","4","5","6","7","8","9">>

IsDigit(c) == \E i \in 1..10 : Digits[i] = c

DigitValue(c) == (CHOOSE i \in 1..10 : Digits[i] = c) - 1

Letters ==
  { "a","b","c","d","e","f","g","h","i","j","k","l","m","n","o","p","q","r",
    "s","t","u","v","w","x","y","z","A","B","C","D","E","F","G","H","I","J",
    "K","L","M","N","O","P","Q","R","S","T","U","V","W","X","Y","Z" }

\* /[a-zA-Z_]/
IsIdentStart(c) == c \in Letters \/ c = "_"

\* /[a-zA-Z0-9_]/, which is also the regular expression class \w
IsWordChar(c) == IsIdentStart(c) \/ IsDigit(c)

\* /\s/ restricted to the characters of the model's alphabet
IsSpace(c) == c = " "

(***************************************************************************)
(* JavaScript values.  Every value is a record with a kind k (the typeof   *)
(* tag, with null kept apart from object).  Numbers are exact rationals    *)
(* n/d, d > 0, in lowest terms; NaN is 0/0 and the infinities are 1/0 and  *)
(* -1/0.  IEEE-754 rounding and the sign of zero are not represented.      *)
(* Objects carry an identity id, by which === compares them.               *)
(***************************************************************************)
AbsInt(i) == IF i < 0 THEN -i ELSE i

RECURSIVE Gcd(_, _)
Gcd(m, n) == IF n = 0 THEN m ELSE Gcd(n, m % n)

Rat(n, d) ==
  IF d = 0
    THEN [k |-> "number", n |-> (IF n > 0 THEN 1 ELSE IF n < 0 THEN -1 ELSE 0), d |-> 0]
    ELSE LET g == Gcd(AbsInt(n), AbsInt(d))
             s == IF d < 0 THEN -1 ELSE 1
         IN [k |-> "number", n |-> (s * n) \div g, d |-> (s * d) \div g]

Num(n) == [k |-> "number", n |-> n, d |-> 1]
NaN == [k |-> "number", n |-> 0, d |-> 0]
Str(s) == [k |-> "string", s |-> s]
Bool(b) == [k |-> "boolean", b |-> b]
Null == [k |-> "null"]
Undefined == [k |-> "undefined"]
\* a plain object or an array: own enumerable properties, keyed by string
Obj(id, props) == [k |-> "object", id |-> id, props |-> props, array |-> FALSE]
Arr(id, props) == [k |-> "object", id |-> id, props |-> props, array |-> TRUE]
\* a callable of the host: a registered function or a builtin
Fn(name) == [k |-> "function", name |-> name]
\* Object.prototype itself, reached as __proto__
ObjectPrototype == [k |-> "object", id |-> "Object.prototype", props |-> <<>>, array |-> FALSE]

IsNaN(v) == v.k = "number" /\ v.d = 0 /\ v.n = 0
IsInfinite(v) == v.k = "number" /\ v.d = 0 /\ v.n # 0
IsFinite(v) == v.k = "number" /\ v.d # 0

\* JavaScript truthiness, as used by !, ?:, && and || and by `if (!func)`
Truthy(v) ==
  CASE v.k = "boolean"   -> v.b
    [] v.k = "number"    -> ~IsNaN(v) /\ v.n # 0
    [] v.k = "string"    -> v.s # <<>>
    [] v.k = "null"      -> FALSE
    [] v.k = "undefined" -> FALSE
    [] OTHER             -> TRUE

(***************************************************************************)
(* The conversions the interpreter's JavaScript operators apply.           *)
(***************************************************************************)
RECURSIVE NatToString(_)
NatToString(n) ==
  IF n < 10 THEN <<Digits[n + 1]>>
  ELSE Append(NatToString(n \div 10), Digits[(n % 10) + 1])

\* the digits after the decimal point of r/d, r < d, at most `left` of them
RECURSIVE FracDigits(_, _, _)
FracDigits(r, d, left) ==
  IF r = 0 \/ left = 0 THEN <<>>
  ELSE <<Digits[((r * 10) \div d) + 1]>> \o FracDigits((r * 10) % d, d, left - 1)

\* String(number)
NumberToString(v) ==
  IF IsNaN(v) THEN Word.NaN
  ELSE IF IsInfinite(v) THEN (IF v.n < 0 THEN <<"-">> ELSE <<>>) \o Word.Infinity
  ELSE LET m == AbsInt(v.n)
           r == m % v.d
           body == NatToString(m \div v.d)
                     \o (IF r = 0 THEN <<>> ELSE <<".">> \o FracDigits(r, v.d, 16))
       IN IF v.n < 0 THEN <<"-">> \o body ELSE body

\* the elements of an array, in index order
ArrayLength(v) == Cardinality(DOMAIN v.props)

\* String(value); Array.prototype.join for arrays
RECURSIVE ToStringValue(_)
RECURSIVE JoinFrom(_, _)
JoinFrom(v, i) ==
  IF i >= ArrayLength(v) THEN <<>>
  ELSE LET e == v.props[NatToString(i)]
           s == IF e.k \in {"null", "undefined"} THEN <<>> ELSE ToStringValue(e)
       IN (IF i > 0 THEN <<",">> ELSE <<>>) \o s \o JoinFrom(v, i + 1)

ToStringValue(v) ==
  CASE v.k = "string"    -> v.s
    [] v.k = "number"    -> NumberToString(v)
    [] v.k = "boolean"   -> IF v.b THEN Word.true ELSE Word.false
    [] v.k = "null"      -> Word.null
    [] v.k = "undefined" -> Word.undefined
    [] v.k = "object"    -> IF v.array THEN JoinFrom(v, 0) ELSE Word.objectObject
    [] v.k = "function"  -> Word.nativeCode

\* StringToNumber for decimal literals: optional sign, digits, optional
\* fraction; the empty string is 0 and anything else is NaN
RECURSIVE DigitsValue(_, _)
DigitsValue(s, acc) ==
  IF s = <<>> THEN acc ELSE DigitsValue(Tail(s), acc * 10 + DigitValue(Head(s)))

RECURSIVE Pow10(_)
Pow10(e) == IF e = 0 THEN 1 ELSE 10 * Pow10(e - 1)

AllDigits(s) == \A i \in 1..Len(s) : IsDigit(s[i])

RECURSIVE TrimSpace(_)
TrimSpace(s) ==
  IF s # <<>> /\ IsSpace(Head(s)) THEN TrimSpace(Tail(s))
  ELSE IF s # <<>> /\ IsSpace(s[Len(s)]) THEN TrimSpace(SubSeq(s, 1, Len(s) - 1))
  ELSE s

UnsignedToNumber(s) ==
  LET dots == {i \in 1..Len(s) : s[i] = "."} IN
  IF s = Word.Infinity THEN Rat(1, 0)
  ELSE IF dots = {} THEN (IF s # <<>> /\ AllDigits(s) THEN Num(DigitsValue(s, 0)) ELSE NaN)
  ELSE IF Cardinality(dots) > 1 THEN NaN
  ELSE LET i == CHOOSE j \in dots : TRUE
           ip == SubSeq(s, 1, i - 1)
           fp == SubSeq(s, i + 1, Len(s))
       IN IF (ip = <<>> /\ fp = <<>>) \/ ~AllDigits(ip) \/ ~AllDigits(fp) THEN NaN
          ELSE Rat(DigitsValue(ip \o fp, 0), Pow10(Len(fp)))

StringToNumber(str) ==
  LET s == TrimSpace(str) IN
  IF s = <<>> THEN Num(0)
  ELSE IF Head(s) = "-"
    THEN LET u == UnsignedToNumber(Tail(s)) IN
         IF Tail(s) = <<>> THEN NaN ELSE [u EXCEPT !.n = -u.n]
  ELSE IF Head(s) = "+"
    THEN (IF Tail(s) = <<>> THEN NaN ELSE UnsignedToNumber(Tail(s)))
  ELSE UnsignedToNumber(s)

\* ToPrimitive: objects and functions become their string form
ToPrimitive(v) == IF v.k \in {"object", "function"} THEN Str(ToStringValue(v)) ELSE v

\* Number(value) of a primitive value
PrimitiveToNumber(v) ==
  CASE v.k = "number"    -> v
    [] v.k = "boolean"   -> IF v.b THEN Num(1) ELSE Num(0)
    [] v.k = "null"      -> Num(0)
    [] v.k = "undefined" -> NaN
    [] v.k = "string"    -> StringToNumber(v.s)

\* Number(value)
ToNumber(v) == PrimitiveToNumber(ToPrimitive(v))

(***************************************************************************)
(* Property lookup, object[property], as the host performs it: an own      *)
(* property first, then the prototype chain.  The inherited properties     *)
(* are a representative part of what Object.prototype provides.            *)
(***************************************************************************)
ObjectPrototypeKeys == {Word.constructor, Word.proto, Word.toString, Word.valueOf}

PrototypeName(v) ==
  CASE v.k = "object"   -> IF v.array THEN "Array" ELSE "Object"
    [] v.k = "string"   -> "String"
    [] v.k = "number"   -> "Number"
    [] v.k = "boolean"  -> "Boolean"
    [] v.k = "function" -> "Function"

\* the own properties of a value, by key
OwnKeys(v) ==
  CASE v.k = "object" -> DOMAIN v.props \cup (IF v.array THEN {Word.length} ELSE {})
    [] v.k = "string" -> {NatToString(i) : i \in 0..(Len(v.s) - 1)} \cup {Word.length}
    [] OTHER          -> {}

OwnValue(v, key) ==
  CASE v.k = "object" ->
         IF key \in DOMAIN v.props THEN v.props[key] ELSE Num(ArrayLength(v))
    [] v.k = "string" ->
         IF key = Word.length THEN Num(Len(v.s))
         ELSE Str(<<v.s[DigitsValue(key, 0) + 1]>>)

\* what the prototype chain of v yields for an inherited key
InheritedValue(v, key) ==
  LET p == PrototypeName(v) IN
  CASE key = Word.constructor -> Fn(p)
    [] key = Word.proto ->
         IF v.k = "object" /\ v.id = "Object.prototype" THEN Null
         ELSE [ObjectPrototype EXCEPT !.id = p \o ".prototype"]
    [] key = Word.toString -> Fn(p \o ".prototype.toString")
    [] key = Word.valueOf ->
         Fn((IF p \in {"Array", "Function"} THEN "Object" ELSE p) \o ".prototype.valueOf")

\* key in object
HasProperty(v, key) == key \in OwnKeys(v) \/ key \in ObjectPrototypeKeys

\* object[key], for an object that is neither null nor undefined
GetProp(v, key) ==
  IF key \in OwnKeys(v) THEN OwnValue(v, key)
  ELSE IF key \in ObjectPrototypeKeys THEN InheritedValue(v, key)
  ELSE Undefined

(***************************************************************************)
(* Results and errors.  An evaluation yields ok with a value, or fails     *)
(* with a thrown value: an error of some class, or (class "thrown") a      *)
(* value that is no Error.                                                 *)
(***************************************************************************)
Err(class, msg, arg) == [k |-> "error", class |-> class, msg |-> msg, arg |-> arg]

Ok(v) == [ok |-> TRUE, v |-> v]
Throw(e) == [ok |-> FALSE, v |-> e]

(***************************************************************************)
(* Arithmetic on numbers.                                                  *)
(***************************************************************************)
Neg(x) == [x EXCEPT !.n = -x.n]

NumAdd(x, y) ==
  IF IsNaN(x) \/ IsNaN(y) THEN NaN
  ELSE IF IsInfinite(x) THEN (IF IsInfinite(y) /\ y.n # x.n THEN NaN ELSE x)
  ELSE IF IsInfinite(y) THEN y
  ELSE Rat(x.n * y.d + y.n * x.d, x.d * y.d)

NumMul(x, y) ==
  IF IsNaN(x) \/ IsNaN(y) THEN NaN
  ELSE IF IsInfinite(x) \/ IsInfinite(y)
    THEN (IF x.n = 0 \/ y.n = 0 THEN NaN
          ELSE Rat((IF x.n < 0 THEN -1 ELSE 1) * (IF y.n < 0 THEN -1 ELSE 1), 0))
  ELSE Rat(x.n * y.n, x.d * y.d)

NumDiv(x, y) ==
  IF IsNaN(x) \/ IsNaN(y) THEN NaN
  ELSE IF IsInfinite(x)
    THEN (IF IsInfinite(y) THEN NaN ELSE Rat(x.n * (IF y.n < 0 THEN -1 ELSE 1), 0))
  ELSE IF IsInfinite(y) THEN Num(0)
  ELSE Rat(x.n * y.d, x.d * y.n)

\* x truncated toward zero, for a finite x
Trunc(x) ==
  IF x.n >= 0 THEN x.n \div x.d ELSE -((-x.n) \div x.d)

NumMod(x, y) ==
  IF IsNaN(x) \/ IsNaN(y) \/ IsInfinite(x) \/ (IsFinite(y) /\ y.n = 0) THEN NaN
  ELSE IF IsInfinite(y) THEN x
  ELSE NumAdd(x, Neg(NumMul(y, Num(Trunc(NumDiv(x, y))))))

\* x < y for numbers that are not NaN
NumLess(x, y) ==
  IF IsInfinite(x) THEN x.n < 0 /\ ~(IsInfinite(y) /\ y.n < 0)
  ELSE IF IsInfinite(y) THEN y.n > 0
  ELSE x.n * y.d < y.n * x.d

\* the characters of the model's alphabet in code-unit order
AsciiOrder ==
  << " ", "!", "\"", "$", "%", "&", "'", "(", ")", "*", "+", ",", "-", ".", "/",
     "0", "1", "2", "3", "4", "5", "6", "7", "8", "9", ":", "<", "=", ">", "?", "@",
     "A", "B", "C", "D", "E", "F", "G", "H", "I", "J", "K", "L", "M", "N", "O", "P",
     "Q", "R", "S", "T", "U", "V", "W", "X", "Y", "Z", "[", "\\", "]", "_",
     "a", "b", "c", "d", "e", "f", "g", "h", "i", "j", "k", "l", "m", "n", "o", "p",
     "q", "r", "s", "t", "u", "v", "w", "x", "y", "z", "{", "|", "}" >>

CharCode(c) == CHOOSE i \in 1..Len(AsciiOrder) : AsciiOrder[i] = c

RECURSIVE StrLess(_, _)
StrLess(s, t) ==
  IF t = <<>> THEN FALSE
  ELSE IF s = <<>> THEN TRUE
  ELSE IF Head(s) = Head(t) THEN StrLess(Tail(s), Tail(t))
  ELSE CharCode(Head(s)) < CharCode(Head(t))

\* the abstract relational comparison l < r: "true", "false" or "undefined"
LessNumber(x, y) ==
  IF IsNaN(x) \/ IsNaN(y) THEN "undefined"
  ELSE IF NumLess(x, y) THEN "true" ELSE "false"

LessPrimitive(lp, rp) ==
  IF lp.k = "string" /\ rp.k = "string"
    THEN (IF StrLess(lp.s, rp.s) THEN "true" ELSE "false")
    ELSE LessNumber(PrimitiveToNumber(lp), PrimitiveToNumber(rp))

Less(l, r) == LessPrimitive(ToPrimitive(l), ToPrimitive(r))

\* l === r
StrictEquals(l, r) ==
  /\ l.k = r.k
  /\ CASE l.k = "number"   -> ~IsNaN(l) /\ ~IsNaN(r) /\ l.n = r.n /\ l.d = r.d
       [] l.k = "string"   -> l.s = r.s
       [] l.k = "boolean"  -> l.b = r.b
       [] l.k = "object"   -> l.id = r.id
       [] l.k = "function" -> l.name = r.name
       [] OTHER            -> TRUE

\* l + r of JavaScript
AddPrimitive(lp, rp) ==
  IF lp.k = "string" \/ rp.k = "string"
    THEN Str(ToStringValue(lp) \o ToStringValue(rp))
    ELSE NumAdd(PrimitiveToNumber(lp), PrimitiveToNumber(rp))

JsAdd(l, r) == AddPrimitive(ToPrimitive(l), ToPrimitive(r))

(***************************************************************************)
(* The host functions: the Math functions the registry is seeded with,     *)
(* the builtins reachable through Object.prototype, and the functions a    *)
(* caller registers.  A result outside the exact rationals (an irrational  *)
(* root or power) is the value Unmodelled, which no operator accepts.      *)
(***************************************************************************)
Unmodelled == [k |-> "unmodelled"]

Arg(args, i) == IF i <= Len(args) THEN args[i] ELSE Undefined

MathAbs(x) == IF x.n < 0 THEN Neg(x) ELSE x

MathFloor(x) == IF x.d = 0 THEN x ELSE Num(x.n \div x.d)

MathCeil(x) == IF x.d = 0 THEN x ELSE Num(-((-x.n) \div x.d))

MathRound(x) == IF x.d = 0 THEN x ELSE MathFloor(NumAdd(x, Rat(1, 2)))

\* the larger (max) or the smaller of two numbers, NaN if either is NaN
Extreme(acc, x, max) ==
  IF IsNaN(x) \/ IsNaN(acc) THEN NaN
  ELSE IF (IF max THEN NumLess(acc, x) ELSE NumLess(x, acc)) THEN x ELSE acc

RECURSIVE MathMax(_, _)
MathMax(args, acc) ==
  IF args = <<>> THEN acc
  ELSE MathMax(Tail(args), Extreme(acc, ToNumber(Head(args)), TRUE))

RECURSIVE MathMin(_, _)
MathMin(args, acc) ==
  IF args = <<>> THEN acc
  ELSE MathMin(Tail(args), Extreme(acc, ToNumber(Head(args)), FALSE))

MathSqrt(x) ==
  IF IsNaN(x) \/ x.n < 0 THEN NaN
  ELSE IF IsInfinite(x) THEN x
  ELSE IF (\E r \in 0..x.n : r * r = x.n) /\ (\E q \in 1..x.d : q * q = x.d)
    THEN Rat(CHOOSE r \in 0..x.n : r * r = x.n, CHOOSE q \in 1..x.d : q * q = x.d)
  ELSE Unmodelled

RECURSIVE IntPower(_, _)
IntPower(x, e) == IF e = 0 THEN Num(1) ELSE NumMul(x, IntPower(x, e - 1))

MathPow(x, e) ==
  IF IsFinite(e) /\ e.n = 0 THEN Num(1)
  ELSE IF IsNaN(x) \/ IsNaN(e) THEN NaN
  ELSE IF IsFinite(x) /\ IsFinite(e) /\ e.d = 1
    THEN (IF e.n > 0 THEN IntPower(x, e.n) ELSE NumDiv(Num(1), IntPower(x, -e.n)))
  ELSE Unmodelled

\* the Math functions of one argument
MathUnary(name, x) ==
  CASE name = "Math.abs"   -> MathAbs(x)
    [] name = "Math.ceil"  -> MathCeil(x)
    [] name = "Math.floor" -> MathFloor(x)
    [] name = "Math.round" -> MathRound(x)
    [] name = "Math.sqrt"  -> MathSqrt(x)

\* func(...args), called with no receiver
\* the promise an asynchronous host function returns
HostPromise == [k |-> "promise", id |-> "later"]

CallHost(func, args) ==
  IF func.k # "function"
    THEN Throw(Err("TypeError", "func is not a function", <<>>))
  ELSE
  CASE func.name \in {"Math.abs", "Math.ceil", "Math.floor", "Math.round", "Math.sqrt"} ->
         Ok(MathUnary(func.name, ToNumber(Arg(args, 1))))
    [] func.name = "Math.pow"   -> Ok(MathPow(ToNumber(Arg(args, 1)), ToNumber(Arg(args, 2))))
    [] func.name = "Math.max"   -> Ok(MathMax(args, Rat(-1, 0)))
    [] func.name = "Math.min"   -> Ok(MathMin(args, Rat(1, 0)))
    \* registered by the caller
    [] func.name = "boom"       -> Throw(Err("Error", "boom", <<>>))
    [] func.name = "one"        -> Ok(Num(1))
    [] func.name = "two"        -> Ok(Num(2))
    [] func.name = "throwString" -> Throw(Str(<<"N", "o", "t", " ", "a", "n", " ", "e", "r", "r", "o", "r", " ", "o", "b", "j", "e", "c", "t">>))
    [] func.name = "later"      -> Ok(HostPromise)
    \* builtins, which find this undefined
    [] func.name = "Object.prototype.toString" -> Ok(Str(Word.objectUndefined))
    [] func.name = "Object.prototype.valueOf"  ->
         Throw(Err("TypeError", "Cannot convert undefined or null to object", <<>>))
    [] func.name = "Object" ->
         IF Arg(args, 1).k = "object" THEN Ok(Arg(args, 1)) ELSE Ok(Obj("new Object", <<>>))
    [] OTHER -> Ok(Unmodelled)

(***************************************************************************)
(* The operators of the expression language.                               *)
(***************************************************************************)
Op ==
  [ or  |-> <<"|","|">>,     and |-> <<"&","&">>,
    eq  |-> <<"=","=","=">>, ne  |-> <<"!","=","=">>,
    gt  |-> <<">">>,         ge  |-> <<">","=">>,
    lt  |-> <<"<">>,         le  |-> <<"<","=">>,
    add |-> <<"+">>,         sub |-> <<"-">>,
    mul |-> <<"*">>,         div |-> <<"/">>,
    mod |-> <<"%">>,         not |-> <<"!">> ]

\* - * / % on the operands as numbers
Arithmetic(operator, x, y) ==
  CASE operator = Op.sub -> NumAdd(x, Neg(y))
    [] operator = Op.mul -> NumMul(x, y)
    [] operator = Op.div -> NumDiv(x, y)
    [] operator = Op.mod -> NumMod(x, y)

\* > >= < <= from the two comparisons left < right (lr) and right < left (rl)
Relational(operator, lr, rl) ==
  CASE operator = Op.gt -> rl = "true"
    [] operator = Op.ge -> lr = "false"
    [] operator = Op.lt -> lr = "true"
    [] operator = Op.le -> rl = "false"

\* the switch of evaluateBinaryExpression on two evaluated operands
BinaryOperation(operator, left, right) ==
  CASE operator = Op.add -> Ok(JsAdd(left, right))
    [] operator \in {Op.sub, Op.mul, Op.div, Op.mod} ->
         Ok(Arithmetic(operator, ToNumber(left), ToNumber(right)))
    [] operator = Op.eq  -> Ok(Bool(StrictEquals(left, right)))
    [] operator = Op.ne  -> Ok(Bool(~StrictEquals(left, right)))
    [] operator \in {Op.gt, Op.ge, Op.lt, Op.le} ->
         Ok(Bool(Relational(operator, Less(left, right), Less(right, left))))
    [] operator = Op.and -> Ok(IF Truthy(left) THEN right ELSE left)
    [] operator = Op.or  -> Ok(IF Truthy(left) THEN left ELSE right)
    [] OTHER -> Throw(Err("ExpressionError", "Unknown operator: ", operator))

\* the same switch in the Interpreter class, whose + tests typeof first
InterpreterBinaryOperation(operator, left, right) ==
  IF operator = Op.add
    THEN (IF left.k = "number" /\ right.k = "number"
            THEN Ok(NumAdd(left, right))
            ELSE Ok(Str(ToStringValue(left) \o ToStringValue(right))))
    ELSE BinaryOperation(operator, left, right)

(***************************************************************************)
(* The AST.                                                                *)
(***************************************************************************)
Literal(value) == [type |-> "Literal", value |-> value]
Identifier(name) == [type |-> "Identifier", name |-> name]
MemberExpression(object, property, computed) ==
  [type |-> "MemberExpression", object |-> object, property |-> property,
   computed |-> computed]
CallExpression(name, arguments) ==
  [type |-> "CallExpression", callee |-> Identifier(name), arguments |-> arguments]
BinaryExpression(operator, left, right) ==
  [type |-> "BinaryExpression", operator |-> operator, left |-> left, right |-> right]
UnaryExpression(operator, argument) ==
  [type |-> "UnaryExpression", operator |-> operator, argument |-> argument,
   prefix |-> TRUE]
ConditionalExpression(test, consequent, alternate) ==
  [type |-> "ConditionalExpression", test |-> test, consequent |-> consequent,
   alternate |-> alternate]
Program(body) == [type |-> "Program", body |-> body]

(***************************************************************************)
(* The interpreter.  state is {context, functions}, both mappings from     *)
(* names to values; state.class tells the Interpreter class from the       *)
(* closure of evaluateAst.  An evaluation returns {ok, v, log}: log is the *)
(* history of the walk: a "node" entry when evaluateNode is entered (with  *)
(* the node's path from the root), a "done" entry with the value when it   *)
(* returns normally, and a "call" entry per host function invoked.         *)
(***************************************************************************)
createInterpreterState(context, functions) ==
  [context |-> context, functions |-> functions, class |-> FALSE]

Return(v, log) == [ok |-> TRUE, v |-> v, log |-> log]
Raise(e, log) == [ok |-> FALSE, v |-> e, log |-> log]
\* the outcome of an operation, with the history so far
WithLog(result, log) == [ok |-> result.ok, v |-> result.v, log |-> log]

\* {...a, ...b}
Spread(a, b) ==
  [key \in DOMAIN a \cup DOMAIN b |-> IF key \in DOMAIN b THEN b[key] ELSE a[key]]

\* one step of a path: the field of the parent node, and for arguments the index
Step(field) == [f |-> field, i |-> 0]
ArgStep(i) == [f |-> "arguments", i |-> i]

RECURSIVE evaluateNode(_, _, _, _)
RECURSIVE evaluateArguments(_, _, _, _, _)
RECURSIVE evaluateMemberExpression(_, _, _, _)
RECURSIVE evaluateCallExpression(_, _, _, _)
RECURSIVE evaluateBinaryExpression(_, _, _, _)
RECURSIVE evaluateUnaryExpression(_, _, _, _)
RECURSIVE evaluateConditionalExpression(_, _, _, _)

evaluateLiteral(node, log) == Return(node.value, log)

evaluateIdentifier(node, state, log) ==
  LET context == Obj("context", state.context) IN
  IF ~HasProperty(context, node.name)
    THEN Raise(Err("ExpressionError", "Undefined variable: ", node.name), log)
    ELSE Return(GetProp(context, node.name), log)

evaluateMemberExpression(node, path, state, log) ==
  LET object == evaluateNode(node.object, Append(path, Step("object")), state, log) IN
  IF ~object.ok THEN object
  ELSE IF object.v.k \in {"null", "undefined"}
    THEN Raise(Err("ExpressionError", "Cannot access property of null or undefined", <<>>),
               object.log)
  ELSE IF node.computed
    THEN LET property == evaluateNode(node.property, Append(path, Step("property")), state,
                                      object.log)
         IN IF ~property.ok THEN property
            ELSE Return(GetProp(object.v, ToStringValue(property.v)), property.log)
  ELSE Return(GetProp(object.v, node.property.name), object.log)

\* node.arguments.map((arg) => evaluateNode(arg)), from argument i on
evaluateArguments(arguments, i, path, state, acc) ==
  IF i > Len(arguments) THEN acc
  ELSE LET arg == evaluateNode(arguments[i], Append(path, ArgStep(i)), state, acc.log) IN
       IF ~arg.ok THEN arg
       ELSE evaluateArguments(arguments, i + 1, path, state,
                              Return(Append(acc.v, arg.v), arg.log))

\* func(...args) on the evaluated arguments
Invoke(func, args, path) ==
  IF ~args.ok THEN args
  ELSE WithLog(CallHost(func, args.v),
               Append(args.log,
                      [e |-> "call", path |-> path,
                       func |-> IF func.k = "function" THEN func.name ELSE func.id]))

\* if (!func) throw ...; args = node.arguments.map(...); return func(...args)
CallFunction(func, node, path, state, log) ==
  IF ~Truthy(func)
    THEN Raise(Err("ExpressionError", "Undefined function: ", node.callee.name), log)
    ELSE Invoke(func, evaluateArguments(node.arguments, 1, path, state, Return(<<>>, log)),
                path)

evaluateCallExpression(node, path, state, log) ==
  CallFunction(GetProp(Obj("functions", state.functions), node.callee.name),
               node, path, state, log)

evaluateBinaryExpression(node, path, state, log) ==
  LET left == evaluateNode(node.left, Append(path, Step("left")), state, log) IN
  IF ~left.ok THEN left
  ELSE LET right == evaluateNode(node.right, Append(path, Step("right")), state, left.log) IN
       IF ~right.ok THEN right
       ELSE WithLog(IF state.class
                      THEN InterpreterBinaryOperation(node.operator, left.v, right.v)
                      ELSE BinaryOperation(node.operator, left.v, right.v),
                    right.log)

evaluateUnaryExpression(node, path, state, log) ==
  LET argument == evaluateNode(node.argument, Append(path, Step("argument")), state, log) IN
  IF ~argument.ok THEN argument
  ELSE IF ~state.class /\ ~node.prefix
    THEN Raise(Err("ExpressionError", "Postfix operators are not supported: ",
                   node.operator), argument.log)
  ELSE IF node.operator = Op.not THEN Return(Bool(~Truthy(argument.v)), argument.log)
  ELSE IF node.operator = Op.sub /\ ~state.class
    THEN (IF argument.v.k # "number"
            THEN Raise(Err("ExpressionError", "Cannot apply unary - to non-number: ",
                           ToStringValue(argument.v)), argument.log)
            ELSE Return(Neg(argument.v), argument.log))
  ELSE Raise(Err("ExpressionError", "Unknown operator: ", node.operator), argument.log)

\* a conditional that evaluates both branches before it selects one
evaluateConditionalExpressionEager(node, path, state, log) ==
  LET test == evaluateNode(node.test, Append(path, Step("test")), state, log) IN
  IF ~test.ok THEN test
  ELSE LET consequent ==
             evaluateNode(node.consequent, Append(path, Step("consequent")), state, test.log)
       IN IF ~consequent.ok THEN consequent
          ELSE LET alternate ==
                     evaluateNode(node.alternate, Append(path, Step("alternate")), state,
                                  consequent.log)
               IN IF ~alternate.ok THEN alternate
                  ELSE IF Truthy(test.v) THEN [consequent EXCEPT !.log = alternate.log]
                  ELSE alternate

evaluateConditionalExpression(node, path, state, log) ==
  LET test == evaluateNode(node.test, Append(path, Step("test")), state, log) IN
  IF ~test.ok THEN test
  ELSE IF Truthy(test.v)
    THEN evaluateNode(node.consequent, Append(path, Step("consequent")), state, test.log)
    ELSE evaluateNode(node.alternate, Append(path, Step("alternate")), state, test.log)

\* the catch of the Interpreter class's evaluateNode: an ExpressionError is
\* thrown again with its message prefixed by "Evaluation error: "
Rewrap(result) ==
  IF ~result.ok /\ result.v.class = "ExpressionError"
    THEN [result EXCEPT !.v.msg = "Evaluation error: " \o result.v.msg]
    ELSE result

Finish(result, path, state) ==
  IF result.ok
    THEN [result EXCEPT !.log = Append(@, [e |-> "done", path |-> path, v |-> result.v])]
    ELSE IF state.class THEN Rewrap(result) ELSE result

Dispatch(node, path, state, here) ==
        CASE node.type = "Literal" -> evaluateLiteral(node, here)
          [] node.type = "Identifier" -> evaluateIdentifier(node, state, here)
          [] node.type = "MemberExpression" ->
               evaluateMemberExpression(node, path, state, here)
          [] node.type = "CallExpression" ->
               evaluateCallExpression(node, path, state, here)
          [] node.type = "BinaryExpression" ->
               evaluateBinaryExpression(node, path, state, here)
          [] node.type = "UnaryExpression" ->
               evaluateUnaryExpression(node, path, state, here)
          [] node.type = "ConditionalExpression" ->
               evaluateConditionalExpression(node, path, state, here)
          [] OTHER ->
               Raise(Err("ExpressionError", "Unsupported node type: ", node.type), here)

evaluateNode(node, path, state, log) ==
  Finish(Dispatch(node, path, state, Append(log, [e |-> "node", path |-> path])), path, state)

\* evaluateAst(ast, state, context): the context of the call is laid over
\* the state's for this evaluation only
evaluateAst(ast, state, context) ==
  evaluateNode(ast.body, <<>>, [state EXCEPT !.context = Spread(state.context, context)],
               <<>>)

(***************************************************************************)
(* The function registry.                                                  *)
(***************************************************************************)
\* the registry as the module leaves it after loading
SeededFunctions ==
  (Word.abs :> Fn("Math.abs")) @@ (Word.ceil :> Fn("Math.ceil")) @@
  (Word.floor :> Fn("Math.floor")) @@ (Word.max :> Fn("Math.max")) @@
  (Word.min :> Fn("Math.min")) @@ (Word.round :> Fn("Math.round")) @@
  (Word.sqrt :> Fn("Math.sqrt")) @@ (Word.pow :> Fn("Math.pow"))

\* exprGlobalFunctions[name] = fn
register(functions, name, fn) ==
  [key \in DOMAIN functions \cup {name} |-> IF key = name THEN fn ELSE functions[key]]

(***************************************************************************)
(* The tokenizer.  Positions are 0-based as in the source: input[pos] of   *)
(* the program is input[pos + 1] here.  A reader yields the token read     *)
(* and the position after it, or fails with an ExpressionError that        *)
(* carries the position and the text before it.                            *)
(***************************************************************************)
Token(type, value) == [type |-> type, value |-> value]

\* new ExpressionError(message, position, token)
ErrorAt(msg, position, token) ==
  [k |-> "error", class |-> "ExpressionError", msg |-> msg, arg |-> <<>>,
   position |-> position, token |-> token]

Read(token, pos) == Ok([token |-> token, pos |-> pos])

\* input.substring(Math.max(0, pos - 10), pos)
Before(input, pos) ==
  SubSeq(input, (IF pos > 10 THEN pos - 10 ELSE 0) + 1,
         IF pos > Len(input) THEN Len(input) ELSE pos)

\* /[+\-*\/%!&|=<>]/
isOperatorStart(char) == char \in {"+", "-", "*", "/", "%", "!", "&", "|", "=", "<", ">"}

\* value += input[pos], which appends "undefined" past the end of the input
CharAt(input, pos) == IF pos < Len(input) THEN <<input[pos + 1]>> ELSE Word.undefined

\* the loop of readString, entered after the opening quote
RECURSIVE readString(_, _, _, _)
readString(input, pos, quote, value) ==
  IF pos >= Len(input)
    THEN Throw(ErrorAt("Unterminated string", pos, Before(input, pos)))
  ELSE IF input[pos + 1] = quote THEN Read(Token("STRING", value), pos + 1)
  ELSE IF input[pos + 1] = "\\"
    THEN readString(input, pos + 2, quote, value \o CharAt(input, pos + 1))
  ELSE readString(input, pos + 1, quote, Append(value, input[pos + 1]))

\* the position after the characters from pos on that are all in `class`
Span(input, pos, class) ==
  CHOOSE end \in pos..Len(input) :
    /\ \A i \in (pos + 1)..end : input[i] \in class
    /\ end = Len(input) \/ input[end + 1] \notin class

DigitChars == {Digits[i] : i \in 1..10}

Slice(input, start, end) == SubSeq(input, start + 1, end)

TokenTo(type, input, start, end) == Read(Token(type, Slice(input, start, end)), end)

readNumber(input, pos) ==
  TokenTo("NUMBER", input, pos, Span(input, pos, DigitChars \cup {".", "-"}))

readFunction(input, pos) ==
  TokenTo("FUNCTION", input, pos + 1, Span(input, pos + 1, Letters \cup {"_"}))

\* true, false and null are keywords
KeywordType(value) ==
  IF value = Word.true \/ value = Word.false THEN "BOOLEAN"
  ELSE IF value = Word.null THEN "NULL"
  ELSE "IDENTIFIER"

Keyword(value, end) == Read(Token(KeywordType(value), value), end)

IdentifierTo(input, start, end) == Keyword(Slice(input, start, end), end)

readIdentifier(input, pos) ==
  IdentifierTo(input, pos, Span(input, pos, Letters \cup DigitChars \cup {"_"}))

\* the operators in the order readOperator tries them
Operators ==
  << <<"=","=","=">>, <<"!","=","=">>, <<"&","&">>, <<"|","|">>, <<">","=">>, <<"<","=">>,
     <<">">>, <<"<">>, <<"+">>, <<"-">>, <<"*">>, <<"/">>, <<"%">>, <<"!">> >>

\* input.startsWith(op, pos)
StartsWith(input, op, pos) ==
  pos + Len(op) <= Len(input) /\ SubSeq(input, pos + 1, pos + Len(op)) = op

FirstOperator(input, pos, found) ==
  IF found = {}
    THEN Throw(ErrorAt("Unknown operator at position ", pos, Before(input, pos)))
    ELSE Read(Token("OPERATOR", Operators[CHOOSE i \in found : \A j \in found : i <= j]),
              pos + Len(Operators[CHOOSE i \in found : \A j \in found : i <= j]))

readOperator(input, pos) ==
  FirstOperator(input, pos, {i \in 1..Len(Operators) : StartsWith(input, Operators[i], pos)})

\* the switch on a single character
Punctuation(char, pos) ==
  CASE char = "." -> Read(Token("DOT", <<char>>), pos + 1)
    [] char = "[" -> Read(Token("BRACKET_LEFT", <<char>>), pos + 1)
    [] char = "]" -> Read(Token("BRACKET_RIGHT", <<char>>), pos + 1)
    [] char = "(" -> Read(Token("PAREN_LEFT", <<char>>), pos + 1)
    [] char = ")" -> Read(Token("PAREN_RIGHT", <<char>>), pos + 1)
    [] char = "," -> Read(Token("COMMA", <<char>>), pos + 1)
    [] char = "?" -> Read(Token("QUESTION", <<char>>), pos + 1)
    [] char = ":" -> Read(Token("COLON", <<char>>), pos + 1)
    [] char = "$" -> Read(Token("DOLLAR", <<char>>), pos + 1)
    [] OTHER -> Throw(ErrorAt("Unexpected character: ", pos, <<char>>))

\* one turn of the loop of tokenize on the character at pos
readToken(input, pos, char) ==
  IF char = "\"" \/ char = "'" THEN readString(input, pos + 1, char, <<>>)
  ELSE IF IsDigit(char) \/ (char = "-" /\ pos + 1 < Len(input) /\ IsDigit(input[pos + 2]))
    THEN readNumber(input, pos)
  ELSE IF char = "@" THEN readFunction(input, pos)
  ELSE IF IsIdentStart(char) THEN readIdentifier(input, pos)
  ELSE IF isOperatorStart(char) THEN readOperator(input, pos)
  ELSE Punctuation(char, pos)

RECURSIVE tokenizeFrom(_, _, _)
\* tokens.push(token); continue
Push(read, input, tokens) ==
  IF ~read.ok THEN read
  ELSE tokenizeFrom(input, read.v.pos, Append(tokens, read.v.token))

tokenizeFrom(input, pos, tokens) ==
  IF pos >= Len(input) THEN Ok(tokens)
  ELSE IF IsSpace(input[pos + 1]) THEN tokenizeFrom(input, pos + 1, tokens)
  ELSE Push(readToken(input, pos, input[pos + 1]), input, tokens)

tokenize(expr) == tokenizeFrom(expr, 0, <<>>)

(***************************************************************************)
(* The parser: precedence climbing over the token list.  `current` is the  *)
(* 0-based index of the next token.  A parsing function yields the node    *)
(* it built and the index after it, or fails with an ExpressionError.      *)
(***************************************************************************)
EndOfInput == <<"<","e","n","d"," ","o","f"," ","i","n","p","u","t",">">>

Parsed(node, current) == Ok([node |-> node, current |-> current])

\* match(type): the next token exists and has this type
match(tokens, current, type) == current < Len(tokens) /\ tokens[current + 1].type = type

\* an error that carries the message only
ExpectedBare(msg, tokens, current) == Throw(Err("ExpressionError", msg, <<>>))

\* throw new ExpressionError(msg, current, token ? token.value : "<end of input>")
Expected(msg, tokens, current) ==
  Throw(ErrorAt(msg, current,
                IF current < Len(tokens) THEN tokens[current + 1].value ELSE EndOfInput))

\* a table that ranks every binary operator alike
getOperatorPrecedenceFlat(token) ==
  IF token.type = "OPERATOR" THEN 2
  ELSE IF token.type = "DOT" \/ token.type = "BRACKET_LEFT" THEN 9
  ELSE IF token.type = "QUESTION" THEN 1
  ELSE -1

getOperatorPrecedence(token) ==
  IF token.type = "OPERATOR" /\ token.value \in {Operators[i] : i \in 1..Len(Operators)}
    THEN CASE token.value = Op.or -> 2
           [] token.value = Op.and -> 3
           [] token.value \in {Op.eq, Op.ne} -> 4
           [] token.value \in {Op.gt, Op.ge, Op.lt, Op.le} -> 5
           [] token.value \in {Op.add, Op.sub} -> 6
           [] token.value \in {Op.mul, Op.div, Op.mod} -> 7
           [] token.value = Op.not -> 8
  ELSE IF token.type = "DOT" \/ token.type = "BRACKET_LEFT" THEN 9
  ELSE IF token.type = "QUESTION" THEN 1
  ELSE -1

\* a Literal as the parser builds it, with the raw text of the token
RawLiteral(value, raw) == [type |-> "Literal", value |-> value, raw |-> raw]

RECURSIVE parseExpression(_, _, _)
RECURSIVE parseExpressionLoop(_, _, _, _)
RECURSIVE parsePrimary(_, _)
RECURSIVE parseMemberExpression(_, _, _)
RECURSIVE parseCallExpression(_, _)
RECURSIVE parseArguments(_, _, _)

\* the computed property was parsed: consume ]
CloseBracket(property, tokens, object) ==
  IF ~property.ok THEN property
  ELSE IF ~match(tokens, property.v.current, "BRACKET_RIGHT")
    THEN Expected("Expected closing bracket", tokens, property.v.current)
  ELSE Parsed(MemberExpression(object, property.v.node, TRUE), property.v.current + 1)

\* entered with the . or [ token at current
parseMemberExpression(tokens, current, object) ==
  IF tokens[current + 1].type = "DOT"
    THEN (IF ~match(tokens, current + 1, "IDENTIFIER")
            THEN Expected("Expected property name", tokens, current + 1)
            ELSE Parsed(MemberExpression(object, Identifier(tokens[current + 2].value), FALSE),
                        current + 2))
    ELSE CloseBracket(parseExpression(tokens, current + 1, 0), tokens, object)

\* args.push(arg), and round the loop again
PushArgument(arg, tokens, args) ==
  IF ~arg.ok THEN arg
  ELSE parseArguments(tokens, arg.v.current, Append(args, arg.v.node))

\* the while (true) loop of parseCallExpression
parseArguments(tokens, current, args) ==
  IF match(tokens, current, "PAREN_RIGHT") THEN Parsed(args, current + 1)
  ELSE IF current >= Len(tokens)
    THEN Expected("Expected closing parenthesis", tokens, current)
  ELSE IF args # <<>> /\ ~match(tokens, current, "COMMA")
    THEN Expected("Expected comma between function arguments", tokens, current)
  ELSE PushArgument(parseExpression(tokens, IF args # <<>> THEN current + 1 ELSE current, 0),
                    tokens, args)

CallOf(name, args) ==
  IF ~args.ok THEN args ELSE Parsed(CallExpression(name, args.v.node), args.v.current)

\* entered with the FUNCTION token at current
parseCallExpression(tokens, current) ==
  IF ~match(tokens, current + 1, "PAREN_LEFT")
    THEN Expected("Expected opening parenthesis after function name", tokens, current + 1)
    ELSE CallOf(tokens[current + 1].value, parseArguments(tokens, current + 2, <<>>))

UnaryOf(operator, argument) ==
  IF ~argument.ok THEN argument
  ELSE Parsed(UnaryExpression(operator, argument.v.node), argument.v.current)

\* the parenthesised expression was parsed: consume )
CloseParen(expr, tokens) ==
  IF ~expr.ok THEN expr
  ELSE IF ~match(tokens, expr.v.current, "PAREN_RIGHT")
    THEN Expected("Expected closing parenthesis", tokens, expr.v.current)
  ELSE Parsed(expr.v.node, expr.v.current + 1)

PrimaryOf(token, tokens, current) ==
  IF token.type = "OPERATOR" /\ (token.value = Op.not \/ token.value = Op.sub)
    THEN UnaryOf(token.value, parsePrimary(tokens, current + 1))
  ELSE
  CASE token.type = "NUMBER" ->
         Parsed(RawLiteral(StringToNumber(token.value), token.value), current + 1)
    [] token.type = "STRING" ->
         Parsed(RawLiteral(Str(token.value), <<"\"">> \o token.value \o <<"\"">>), current + 1)
    [] token.type = "BOOLEAN" ->
         Parsed(RawLiteral(Bool(token.value = Word.true), token.value), current + 1)
    [] token.type = "NULL" -> Parsed(RawLiteral(Null, Word.null), current + 1)
    [] token.type = "IDENTIFIER" -> Parsed(Identifier(token.value), current + 1)
    [] token.type = "FUNCTION" -> parseCallExpression(tokens, current)
    [] token.type = "PAREN_LEFT" -> CloseParen(parseExpression(tokens, current + 1, 0), tokens)
    [] OTHER -> Throw(ErrorAt("Unexpected token: " \o token.type, current, token.value))

parsePrimary(tokens, current) ==
  IF current >= Len(tokens)
    THEN Throw(ErrorAt("Unexpected end of input", current, EndOfInput))
    ELSE PrimaryOf(tokens[current + 1], tokens, current)

\* left = <the node built>; continue
Continue(left, tokens, precedence) ==
  IF ~left.ok THEN left
  ELSE parseExpressionLoop(tokens, left.v.current, precedence, left.v.node)

BinaryOf(right, operator, left) ==
  IF ~right.ok THEN right
  ELSE Parsed(BinaryExpression(operator, left, right.v.node), right.v.current)

ConditionalOf(alternate, consequent, test) ==
  IF ~alternate.ok THEN alternate
  ELSE Parsed(ConditionalExpression(test, consequent, alternate.v.node), alternate.v.current)

\* an alternate that stops in front of a following ?
AlternateTight(consequent, tokens, test) ==
  IF ~consequent.ok THEN consequent
  ELSE IF ~match(tokens, consequent.v.current, "COLON")
    THEN Expected("Expected : in conditional expression", tokens, consequent.v.current)
  ELSE ConditionalOf(parseExpression(tokens, consequent.v.current + 1, 1),
                     consequent.v.node, test)

\* the consequent was parsed: consume : and parse the alternate
Alternate(consequent, tokens, test) ==
  IF ~consequent.ok THEN consequent
  ELSE IF ~match(tokens, consequent.v.current, "COLON")
    THEN Expected("Expected : in conditional expression", tokens, consequent.v.current)
  ELSE ConditionalOf(parseExpression(tokens, consequent.v.current + 1, 0),
                     consequent.v.node, test)

\* one turn of the while (true) loop, on the token at current
Infix(token, nextPrecedence, tokens, current, precedence, left) ==
  IF nextPrecedence <= precedence THEN Parsed(left, current)
  ELSE IF token.type = "QUESTION"
    THEN Continue(Alternate(parseExpression(tokens, current + 1, 0), tokens, left),
                  tokens, precedence)
  ELSE IF token.type = "OPERATOR"
    THEN Continue(BinaryOf(parseExpression(tokens, current + 1, nextPrecedence),
                           token.value, left),
                  tokens, precedence)
  ELSE IF token.type = "DOT" \/ token.type = "BRACKET_LEFT"
    THEN Continue(parseMemberExpression(tokens, current, left), tokens, precedence)
  ELSE Parsed(left, current)

parseExpressionLoop(tokens, current, precedence, left) ==
  IF current >= Len(tokens) THEN Parsed(left, current)
  ELSE Infix(tokens[current + 1], getOperatorPrecedence(tokens[current + 1]),
             tokens, current, precedence, left)

parseExpression(tokens, current, precedence) ==
  Continue(parsePrimary(tokens, current), tokens, precedence)

ProgramOf(expression) ==
  IF ~expression.ok THEN expression ELSE Ok(Program(expression.v.node))

parse(tokens) == ProgramOf(parseExpression(tokens, 0, 0))

(***************************************************************************)
(* The state of the program.                                               *)
(***************************************************************************)
VARIABLES
  exprGlobalFunctions,  \* the global function registry
  activeConfig,         \* the active configuration
  heldEvaluator,        \* the evaluator a compile returned, as the host keeps it
  heldExpression,       \* an Expression object of the class-based API
  call                  \* the call the host made last and its outcome

vars == <<exprGlobalFunctions, activeConfig, heldEvaluator, heldExpression, call>>

NoCall == [op |-> "none"]
NoClosure == [kept |-> FALSE]
NoExpression == [made |-> FALSE]

(***************************************************************************)
(* The configuration and the blacklist check in front of the compiler.     *)
(***************************************************************************)
defaultConfig ==
  [ maxTimeout |-> 10000,
    blackList |-> { Word.constructor, Word.proto, Word.prototype, Word.this,
                    Word.window, Word.global } ]

\* configure(config): a field that the partial config holds replaces the active one
configure(active, config) ==
  [ maxTimeout |-> IF "maxTimeout" \in DOMAIN config THEN config.maxTimeout
                   ELSE active.maxTimeout,
    blackList  |-> IF "blackList" \in DOMAIN config THEN config.blackList
                   ELSE active.blackList ]

\* the assertion \b at index i of s, between s[i] and s[i + 1]
WordBoundary(s, i) ==
  (i > 0 /\ IsWordChar(s[i])) # (i < Len(s) /\ IsWordChar(s[i + 1]))

\* /\b(word)\b/ matches somewhere in s
MatchesWord(s, word) ==
  \E i \in 0..(Len(s) - Len(word)) :
    /\ SubSeq(s, i + 1, i + Len(word)) = word
    /\ WordBoundary(s, i)
    /\ WordBoundary(s, i + Len(word))

\* the alternatives of Array.from(blackList).join("\\b|\\b"): the words, and
\* for no words the empty pattern, which is what joining nothing yields
Alternatives(blackList) == IF blackList = {} THEN {<<>>} ELSE blackList

\* new RegExp("\\b(" + ... + ")\\b", "g").test(expression)
blackListRegexpTest(blackList, expression) ==
  \E word \in Alternatives(blackList) : MatchesWord(expression, word)

validateExpression(expression, blackList) ==
  IF expression = <<>> \/ TrimSpace(expression) = <<>>
    THEN Throw(Err("ExpressionError", "Cannot evaluate empty expression", <<>>))
  ELSE IF blackListRegexpTest(blackList, expression)
    THEN Throw(Err("ExpressionError", "Blacklisted keywords detected in expression", <<>>))
  ELSE Ok(Undefined)

(***************************************************************************)
(* Compilation.  The outcome of a compilation carries, besides the         *)
(* evaluator or the error, the steps that were taken in order.             *)
(***************************************************************************)
\* a copy of the registry's contents as they are at the moment of the call,
\* which later registrations do not reach
getFunctionsSnapshot == [shared |-> FALSE, own |-> exprGlobalFunctions]

\* the registry object itself, which a holder shares with every other holder
getFunctions == [shared |-> TRUE, own |-> <<>>]

\* the functions an interpreter state holds, as they are when it is used
Functions(state) ==
  IF state.functions.shared THEN exprGlobalFunctions ELSE state.functions.own

Failed(result, steps) == [ok |-> FALSE, v |-> result.v, steps |-> steps]

\* the closure compile returns: the AST and the interpreter state it captured
Closure(ast, functions, steps) ==
  IF ~ast.ok THEN Failed(ast, steps)
  ELSE [ok |-> TRUE, steps |-> steps,
        v |-> [ast |-> ast.v, interpreterState |-> createInterpreterState(<<>>, functions)]]

ParseTokens(tokens, functions, steps) ==
  IF ~tokens.ok THEN Failed(tokens, steps)
  ELSE Closure(parse(tokens.v), functions, Append(steps, "parse"))

\* compile of compile.ts: tokenize, parse, capture the registry
compile(expression) == ParseTokens(tokenize(expression), getFunctions, <<"tokenize">>)

Validated(valid, expression, steps) ==
  IF ~valid.ok THEN Failed(valid, steps)
  ELSE ParseTokens(tokenize(expression), getFunctions, Append(steps, "tokenize"))

\* compile of index.ts and compileSync: validateExpression first
compileSync(expression, blackList) ==
  Validated(validateExpression(expression, blackList), expression, <<"validateExpression">>)

\* catch (error): an Error that is no ExpressionError is thrown again as one
AsExpressionError(result) ==
  IF ~result.ok /\ result.v.k = "error" /\ result.v.class # "ExpressionError"
    THEN [result EXCEPT !.v.class = "ExpressionError"]
    ELSE result

\* evaluator(context) of compile.ts
evaluator(closure, context) ==
  evaluateAst(closure.ast,
              [closure.interpreterState EXCEPT !.functions = Functions(closure.interpreterState)],
              context)

Run(compiled, context) ==
  IF ~compiled.ok THEN [ok |-> FALSE, v |-> compiled.v, steps |-> compiled.steps, log |-> <<>>]
  ELSE [steps |-> Append(compiled.steps, "evaluateAst"), ast |-> compiled.v.ast]
         @@ AsExpressionError(evaluator(compiled.v, context))

\* evaluate(expression, context): validateExpression, compile, evaluator(context)
evaluate(expression, context, blackList) ==
  IF ~validateExpression(expression, blackList).ok
    THEN [ok |-> FALSE, v |-> validateExpression(expression, blackList).v,
          steps |-> <<"validateExpression">>, log |-> <<>>]
    ELSE Run(compileSync(expression, blackList), context)

(***************************************************************************)
(* Inputs of evaluateAst: the programs and contexts it is applied to.      *)
(***************************************************************************)
MaxArgs == 1

\* contexts of plain data
Contexts ==
  { <<>>,
    (Word.a :> Num(1)) @@
      (Word.x :> Obj("o1", (Word.y :> Obj("o2", (Word.z :> Num(5)))))),
    (Word.a :> Num(0)) @@ (Word.x :> Obj("o3", <<>>)),
    (Word.a :> Str(<<>>)) @@ (Word.x :> Null) @@ (Word.y :> Undefined) }

Leaves ==
  { Literal(Bool(TRUE)), Literal(Bool(FALSE)), Literal(Num(0)), Literal(Num(1)),
    Literal(Null), Literal(Str(Word.y)),
    Identifier(Word.a), Identifier(Word.x), Identifier(Word.toString) }

\* names called: registered, never registered, and a property of Object.prototype
CalleeNames == {Word.boom, Word.max, Word.f, Word.toString}

ArgLists(operands) == UNION {[1..n -> operands] : n \in 0..MaxArgs}

Calls(operands) ==
  {CallExpression(name, arguments) : name \in CalleeNames, arguments \in ArgLists(operands)}

PropertyNames == {Word.y, Word.z, Word.toString, Word.constructor}

BinaryOperators ==
  { Op.or, Op.and, Op.eq, Op.ne, Op.gt, Op.ge, Op.lt, Op.le,
    Op.add, Op.sub, Op.mul, Op.div, Op.mod, Op.not }

\* every expression with one operator over the given operands
Composites(operators, operands) ==
  {BinaryExpression(o, l, r) : o \in operators, l \in operands, r \in operands}
    \cup {ConditionalExpression(t, c, e) : t \in operands, c \in operands, e \in operands}
    \cup {MemberExpression(o, Identifier(n), FALSE) : o \in operands, n \in PropertyNames}
    \cup {MemberExpression(o, q, TRUE) : o \in operands, q \in operands}
    \cup {UnaryExpression(o, e) : o \in {Op.not, Op.sub}, e \in operands}
    \cup Calls(operands)

Atoms == Leaves \cup Calls({})

\* operands that are falsy, truthy, context-dependent, inherited and throwing
Operands ==
  { Literal(Bool(FALSE)), Literal(Num(1)), Literal(Str(Word.y)),
    Identifier(Word.a), Identifier(Word.x), Identifier(Word.toString),
    CallExpression(Word.boom, <<>>) }

\* operands that fail, that call a host function and that are plain
Core == {Literal(Num(1)), Identifier(Word.x), CallExpression(Word.boom, <<>>)}

Nested ==
  {BinaryExpression(o, l, r) : o \in {Op.add, Op.and}, l \in Core, r \in Core}
    \cup { MemberExpression(Identifier(Word.x), Identifier(Word.y), FALSE),
           CallExpression(Word.max, <<Literal(Num(1))>>),
           ConditionalExpression(Identifier(Word.x), Literal(Num(1)),
                                 CallExpression(Word.boom, <<>>)) }

\* expressions with one composite operand
Deep ==
  {BinaryExpression(o, l, r) : o \in {Op.and, Op.or, Op.add}, l \in Core, r \in Nested}
    \cup {BinaryExpression(o, l, r) : o \in {Op.and, Op.or, Op.add}, l \in Nested, r \in Core}
    \cup {ConditionalExpression(t, c, e) : t \in Core, c \in Nested, e \in Core}
    \cup {ConditionalExpression(t, c, e) : t \in Core, c \in Core, e \in Nested}
    \cup {ConditionalExpression(t, c, e) : t \in Nested, c \in Core, e \in Core}
    \cup {MemberExpression(o, Identifier(n), FALSE) : o \in Nested, n \in PropertyNames}
    \cup {MemberExpression(o, q, TRUE) : o \in Core, q \in Nested}
    \cup {CallExpression(n, <<e>>) : n \in CalleeNames, e \in Nested}

Programs ==
  {Program(e) : e \in Atoms \cup Composites(BinaryOperators, Operands) \cup Deep}

\* the registry the programs are evaluated against: the seeds and boom
EvalFunctions == register(SeededFunctions, Word.boom, Fn("boom"))

(***************************************************************************)
(* evaluateAst applied by the host to a program and a context.             *)
(***************************************************************************)
InitEval ==
  /\ exprGlobalFunctions = EvalFunctions
  /\ activeConfig = defaultConfig
  /\ heldEvaluator = NoClosure
  /\ heldExpression = NoExpression
  /\ call = NoCall

\* a walk that works in the object of the caller, which it first sets to the
\* context of the state
contextOverwritten(state, context) == state.context

\* the context object of the caller after evaluateAst(ast, state, context):
\* it is spread into a new object for evaluationState.context, and the walk
\* reads that one and assigns to none
contextAfter(state, context) == context

EvaluateAst(ast, context) ==
  /\ call' = [op |-> "evaluateAst", ast |-> ast, context |-> context,
              contextAfter |-> contextAfter(createInterpreterState(<<>>, exprGlobalFunctions),
                                            context),
              result |-> evaluateAst(ast, createInterpreterState(<<>>, exprGlobalFunctions),
                                     context)]
  /\ UNCHANGED <<exprGlobalFunctions, activeConfig, heldEvaluator, heldExpression>>

NextEval ==
  /\ call = NoCall
  /\ \E ast \in Programs, context \in Contexts : EvaluateAst(ast, context)

SpecEval == InitEval /\ [][NextEval]_vars

(***************************************************************************)
(* The calls the host makes on the API: source texts, contexts and         *)
(* configurations.                                                         *)
(***************************************************************************)
Sources ==
  {
    <<"c","o","n","s","t","r","u","c","t","o","r">>,  \* constructor
    <<"x",".","c","o","n","s","t","r","u","c","t","o","r">>,  \* x.constructor
    <<"x",".","_","_","p","r","o","t","o","_","_">>,  \* x.__proto__
    <<"'","t","h","i","s","'">>,  \* 'this'
    <<"t","h","i","s",".","a">>,  \* this.a
    <<"w","i","n","d","o","w">>,  \* window
    <<"g","l","o","b","a","l",".","x">>,  \* global.x
    <<"a",".","p","r","o","t","o","t","y","p","e">>,  \* a.prototype
    <<"e","v","a","l">>,  \* eval
    <<"F","u","n","c","t","i","o","n">>,  \* Function
    <<"t","h","i","s","a">>,  \* thisa
    <<"x",".","t","o","S","t","r","i","n","g">>,  \* x.toString
    <<"x","[","k","]">>,  \* x[k]
    <<"x",".","y">>,  \* x.y
    <<"x","[","\"","y","\"","]">>,  \* x[`y`]  (` is a double quote)
    <<"1"," ","+"," ","2">>,  \* 1 + 2
    <<"a">>,  \* a
    <<"'","'"," ","+"," ","'","'">>,  \* '' + ''
    <<>>,  \* (blank)
    <<" ">>,  \* (blank)
    <<"@","m","a","x","(","1",","," ","2",")">>,  \* @max(1, 2)
    <<"\"","a">>   \* `a  (` is a double quote)
  }

\* the sources whose evaluator the host keeps
CompiledSources ==
  {
    <<"x",".","t","o","S","t","r","i","n","g">>,  \* x.toString
    <<"x","[","k","]">>,  \* x[k]
    <<"x",".","y">>,  \* x.y
    <<"a">>,  \* a
    <<"1"," ","+"," ","2">>,  \* 1 + 2
    <<"@","m","a","x","(","a",","," ","2",")">>,  \* @max(a, 2)
    <<"x",".","c","o","n","s","t","r","u","c","t","o","r">>   \* x.constructor
  }

ApiContexts ==
  { <<>>,
    (Word.a :> Num(1)) @@ (Word.k :> Str(Word.constructor))
      @@ (Word.x :> Obj("o1", (Word.y :> Num(5)))),
    (Word.a :> Str(Word.x)) @@ (Word.k :> Str(Word.y)) @@ (Word.x :> Obj("o3", <<>>)) }

BlackLists == { {}, {Word.a}, {Word.eval, Word.Function} }

Configs == {[blackList |-> S] : S \in BlackLists} \cup {[maxTimeout |-> 5000]}

(***************************************************************************)
(* The API of index.ts: configure, compile, the evaluator a compile        *)
(* returned, and evaluate.  The host makes one call at a time and takes    *)
(* its outcome before it makes the next.                                   *)
(***************************************************************************)
Init ==
  /\ exprGlobalFunctions = SeededFunctions
  /\ activeConfig = defaultConfig
  /\ heldEvaluator = NoClosure
  /\ heldExpression = NoExpression
  /\ call = NoCall

\* what the caller of evaluate() sees: the value returned or the error thrown
Seen(result) == [ok |-> result.ok, v |-> result.v]

\* the host keeps the evaluator of a compilation that succeeded, and notes
\* in `seen` what it returned for each context since the registry last changed
Keep(result) ==
  IF result.ok
    THEN [kept |-> TRUE, closure |-> result.v, registered |-> exprGlobalFunctions,
          seen |-> <<>>]
    ELSE heldEvaluator

MaxRuns == 2

\* the first outcome for the context stays noted; the runs are counted
Note(seen, context, result) ==
  IF context \in DOMAIN seen
    THEN [seen EXCEPT ![context].runs = IF @ < MaxRuns THEN @ + 1 ELSE @]
    ELSE (context :> [first |-> Seen(result), runs |-> 1]) @@ seen

\* the evaluator and, of its scope, the source it was compiled from
Holding(result, expression) ==
  IF result.ok THEN [expression |-> expression] @@ Keep(result) ELSE heldEvaluator

\* a closure that puts its source to the blacklist again at every call
evaluatorValidating(closure, context, expression, blackList) ==
  IF blackListRegexpTest(blackList, expression)
    THEN Raise(Err("ExpressionError", "Blacklisted keywords detected in expression", <<>>),
               <<>>)
    ELSE AsExpressionError(evaluator(closure, context))

\* the closure compileSync returned, called with a context: of the names in
\* its scope it uses ast and interpreterState; expression and the blacklist
\* of the active configuration it does not read
evaluatorSync(closure, context, expression, blackList) ==
  AsExpressionError(evaluator(closure, context))

Configure(config) ==
  /\ activeConfig' = configure(activeConfig, config)
  /\ UNCHANGED <<exprGlobalFunctions, heldEvaluator, heldExpression, call>>

CompileSync(source) ==
  /\ call' = [op |-> "compileSync", expression |-> source,
              result |-> compileSync(source, activeConfig.blackList)]
  /\ heldEvaluator' = Holding(call'.result, source)
  /\ UNCHANGED <<exprGlobalFunctions, activeConfig, heldExpression>>

RunEvaluator(context) ==
  /\ heldEvaluator.kept
  /\ call' = [op |-> "evaluator", context |-> context,
              result |-> evaluatorSync(heldEvaluator.closure, context,
                                       heldEvaluator.expression, activeConfig.blackList)]
  /\ heldEvaluator' = [heldEvaluator EXCEPT !.seen = Note(@, context, call'.result)]
  /\ UNCHANGED <<exprGlobalFunctions, activeConfig, heldExpression>>

Evaluate(source, context) ==
  /\ call' = [op |-> "evaluate", expression |-> source, context |-> context,
              result |-> evaluate(source, context, activeConfig.blackList)]
  /\ UNCHANGED <<exprGlobalFunctions, activeConfig, heldEvaluator, heldExpression>>

\* the host takes the outcome of the call
TakeOutcome ==
  /\ call # NoCall
  /\ call' = NoCall
  /\ UNCHANGED <<exprGlobalFunctions, activeConfig, heldEvaluator, heldExpression>>

Next ==
  \/ /\ call = NoCall
     /\ \/ \E config \in Configs : Configure(config)
        \/ \E source \in CompiledSources : CompileSync(source)
        \/ \E context \in ApiContexts : RunEvaluator(context)
        \/ \E source \in Sources, context \in ApiContexts : Evaluate(source, context)
  \/ TakeOutcome

Spec == Init /\ [][Next]_vars

(***************************************************************************)
(* compile of compile.ts against the registry of functions.ts: the host    *)
(* registers functions, compiles and runs the evaluator it kept, in any    *)
(* order.                                                                  *)
(***************************************************************************)
RegisteredNames == {Word.max, Word.f}

RegisteredFunctions == {Fn("one"), Fn("two")}

CallSources ==
  { <<"@","f","(","1",")">>,
    <<"@","m","a","x","(","1",","," ","2",")">>,
    <<"@","m","a","x","(","@","f","(",")",","," ","3",")">>,
    <<"a">>,
    <<"@", "m", "a", "x", "(", "a", ",", " ", "2", ")", " ", "+", " ", "b">> }

\* contexts the evaluator is run with
CompileContexts == {<<>>, (Word.a :> Num(1)), (Word.a :> Num(5)) @@ (Word.b :> Num(2))}

\* the registry changed: what the evaluator returned before says nothing now
Forget(held) == IF held.kept THEN [held EXCEPT !.seen = <<>>] ELSE held

Register(name, fn) ==
  /\ exprGlobalFunctions' = register(exprGlobalFunctions, name, fn)
  /\ heldEvaluator' = Forget(heldEvaluator)
  /\ UNCHANGED <<activeConfig, heldExpression, call>>

Compile(source) ==
  /\ call' = [op |-> "compile", expression |-> source, result |-> compile(source)]
  /\ heldEvaluator' = Keep(call'.result)
  /\ UNCHANGED <<exprGlobalFunctions, activeConfig, heldExpression>>

\* an interpreter state that takes the context of every call into its own
interpreterStateMerged(state, context) == [state EXCEPT !.context = Spread(@, context)]

\* the interpreter state of the closure after evaluateAst(ast, state, context):
\* evaluationState is a copy, and `state` is as it was
interpreterStateAfter(state, context) == state

RunCompiled(context) ==
  /\ heldEvaluator.kept
  /\ call' = [op |-> "evaluator", context |-> context,
              result |-> evaluator(heldEvaluator.closure, context)]
  /\ heldEvaluator' =
       [heldEvaluator EXCEPT
          !.closure.interpreterState = interpreterStateAfter(@, context),
          !.seen = Note(@, context, call'.result)]
  /\ UNCHANGED <<exprGlobalFunctions, activeConfig, heldExpression>>

NextCompile ==
  \/ /\ call = NoCall
     /\ \/ \E name \in RegisteredNames, fn \in RegisteredFunctions : Register(name, fn)
        \/ \E source \in CallSources : Compile(source)
        \/ \E context \in CompileContexts : RunCompiled(context)
  \/ TakeOutcome

SpecCompile == Init /\ [][NextCompile]_vars

(***************************************************************************)
(* The class Expression over the class Interpreter: an Expression that     *)
(* was compiled is evaluated again and again.                               *)
(***************************************************************************)
\* new Interpreter(): no context and no functions
NewInterpreter == [context |-> <<>>, functions |-> <<>>]

\* private options = { strictMode: true, maxTimeout: 1000 }
NewOptions == [strictMode |-> TRUE, maxTimeout |-> 1000]

\* the partial options the host passes to Expression.configure
ClassOptions == {[strictMode |-> FALSE], [strictMode |-> TRUE], [maxTimeout |-> 2000]}

\* the functions the host passes to Expression.extend
ClassFunctions ==
  { (Word.f :> Fn("one")),
    (Word.f :> Fn("two")) @@ (Word.max :> Fn("one")) }

\* what compile() left in the Expression objects the host holds
ClassBodies ==
  { Identifier(Word.a),
    BinaryExpression(Op.add, Identifier(Word.a), Identifier(Word.b)),
    ConditionalExpression(Identifier(Word.a), Identifier(Word.b), Literal(Num(1))),
    MemberExpression(Identifier(Word.x), Identifier(Word.y), FALSE),
    UnaryExpression(Op.not, Identifier(Word.b)),
    CallExpression(Word.f, <<Literal(Num(1))>>),
    Literal(Num(1)) }

ClassContexts ==
  { <<>>, (Word.a :> Num(1)), (Word.b :> Num(2)),
    (Word.a :> Num(0)) @@ (Word.x :> Obj("o1", (Word.y :> Num(5)))) }

InitClass ==
  /\ exprGlobalFunctions = SeededFunctions
  /\ activeConfig = defaultConfig
  /\ heldEvaluator = NoClosure
  /\ heldExpression \in {[made |-> TRUE, ast |-> Program(body), interpreter |-> NewInterpreter,
                        options |-> NewOptions] : body \in ClassBodies}
  /\ call = NoCall

\* Interpreter.evaluate: this.context = {...this.context, ...context}
InterpreterEvaluate(interpreter, context) ==
  [interpreter EXCEPT !.context = Spread(@, context)]

\* the walk of the Interpreter class over its own context and functions
InterpreterWalk(interpreter, ast) ==
  evaluateNode(ast.body, <<>>,
               [context |-> interpreter.context, functions |-> interpreter.functions,
                class |-> TRUE],
               <<>>)

\* Expression.evaluate(context)
ExpressionEvaluate(context) ==
  /\ heldExpression.made
  /\ heldExpression' = [heldExpression EXCEPT
                      !.interpreter = InterpreterEvaluate(@, context)]
  /\ call' = [op |-> "Expression.evaluate", context |-> context,
              result |-> AsExpressionError(
                           InterpreterWalk(heldExpression'.interpreter, heldExpression.ast))]
  /\ UNCHANGED <<exprGlobalFunctions, activeConfig, heldEvaluator>>

\* Expression.configure(options): this.options = {...this.options, ...options}
ExpressionConfigure(options) ==
  /\ heldExpression.made
  /\ heldExpression' = [heldExpression EXCEPT !.options = Spread(@, options)]
  /\ UNCHANGED <<exprGlobalFunctions, activeConfig, heldEvaluator, call>>

\* an extend that adds the functions whatever the options say
extendAlways(expression, functions) ==
  Ok([expression EXCEPT !.interpreter.functions = Spread(@, functions)])

\* Expression.extend(functions): outside strict mode setFunction(key, value)
\* for every entry, which leaves the entries merged over the functions held
extend(expression, functions) ==
  IF ~expression.options.strictMode
    THEN Ok([expression EXCEPT !.interpreter.functions = Spread(@, functions)])
    ELSE Throw(Err("ExpressionError",
                   "Cannot extend functions in strict mode. Use configure({ strictMode: false }) first.",
                   <<>>))

Extended(result) == IF result.ok THEN result.v ELSE heldExpression

ExpressionExtend(functions) ==
  /\ heldExpression.made
  /\ heldExpression' = Extended(extend(heldExpression, functions))
  /\ call' = [op |-> "Expression.extend", functions |-> functions,
              result |-> [ok |-> extend(heldExpression, functions).ok,
                          v  |-> IF extend(heldExpression, functions).ok THEN Undefined
                                 ELSE extend(heldExpression, functions).v]]
  /\ UNCHANGED <<exprGlobalFunctions, activeConfig, heldEvaluator>>

NextClass ==
  \/ /\ call = NoCall
     /\ \/ \E context \in ClassContexts : ExpressionEvaluate(context)
        \/ \E options \in ClassOptions : ExpressionConfigure(options)
        \/ \E functions \in ClassFunctions : ExpressionExtend(functions)
  \/ TakeOutcome

SpecClass == InitClass /\ [][NextClass]_vars

(***************************************************************************)
(* The class Expression over an ExpressionState: the object holds a state  *)
(* {expression, interpreterState, options, ast?} and replaces it with the  *)
(* state that configure, extend and compile return.  `ast` is the empty    *)
(* sequence while the field is absent.  `parsed` notes that the source of  *)
(* the object has been tokenized and parsed with success; `steps` in an    *)
(* outcome are the steps the call took.                                    *)
(***************************************************************************)
StateSources ==
  { <<"1", " ", "+", " ", "2">>,
    <<"a", " ", "+", " ", "1">>,
    <<"@", "f", "(", "a", ")">>,
    <<"a", " ", "+">>,
    <<"x", ".", "y">>,
    <<>> }

StateContexts == {<<>>, (Word.a :> Num(1)), (Word.a :> Num(5)) @@ (Word.b :> Num(2))}

createExpressionState(expression) ==
  [expression |-> expression, interpreterState |-> createInterpreterState(<<>>, <<>>),
   options |-> NewOptions, ast |-> <<>>]

\* configure(state, options)
configureState(state, options) == [state EXCEPT !.options = Spread(@, options)]

\* extend(state, functions): setFunction for every entry outside strict mode
extendState(state, functions) ==
  IF ~state.options.strictMode
    THEN Ok([state EXCEPT !.interpreterState.functions = Spread(@, functions)])
    ELSE Throw(Err("ExpressionError",
                   "Cannot extend functions in strict mode. Use configure({ strictMode: false }) first.",
                   <<>>))

\* parse(tokens) when tokenize returned them
ParseAll(tokens) == IF ~tokens.ok THEN tokens ELSE parse(tokens.v)

Stepped(result, steps) == [ok |-> result.ok, v |-> result.v, steps |-> steps]

\* return {...state, ast}, or the error in the catch of compile
WithAst(state, ast) ==
  IF ~ast.ok THEN Stepped(AsExpressionError(ast), <<"tokenize", "parse">>)
  ELSE Stepped(Ok([state EXCEPT !.ast = <<ast.v>>]), <<"tokenize", "parse">>)

\* compile(state)
compileState(state) ==
  IF state.expression = <<>>
    THEN Stepped(Throw(Err("ExpressionError", "Cannot evaluate empty expression", <<>>)), <<>>)
    ELSE WithAst(state, ParseAll(tokenize(state.expression)))

\* evaluateAst(currentState.ast, currentState.interpreterState, context)
EvaluateCurrent(currentState, context) ==
  IF ~currentState.ok
    THEN [ok |-> FALSE, v |-> currentState.v, steps |-> currentState.steps, log |-> <<>>]
    ELSE [steps |-> Append(currentState.steps, "evaluateAst")]
           @@ AsExpressionError(evaluateAst(currentState.v.ast[1],
                                            currentState.v.interpreterState, context))

\* evaluateExpression(state, context): currentState is the state handed in,
\* or the one compile returns for it when it has no ast
evaluateExpression(state, context) ==
  EvaluateCurrent(IF state.ast = <<>> THEN compileState(state) ELSE Stepped(Ok(state), <<>>),
                  context)

\* the state of the object after evaluate(): evaluateExpression(this.state,
\* context) assigns to its own currentState only
evaluatedState(state, current) == state

InitState ==
  /\ exprGlobalFunctions = SeededFunctions
  /\ activeConfig = defaultConfig
  /\ heldEvaluator = NoClosure
  /\ heldExpression \in {[made |-> TRUE, state |-> createExpressionState(expression),
                          parsed |-> FALSE] : expression \in StateSources}
  /\ call = NoCall

\* Expression.configure(options)
StateConfigure(options) ==
  /\ heldExpression' = [heldExpression EXCEPT !.state = configureState(@, options)]
  /\ call' = [op |-> "Expression.configure", options |-> options, result |-> Ok(Undefined)]
  /\ UNCHANGED <<exprGlobalFunctions, activeConfig, heldEvaluator>>

Replaced(held, result) == IF result.ok THEN [held EXCEPT !.state = result.v] ELSE held

Outcome(result) == [ok |-> result.ok, v |-> IF result.ok THEN Undefined ELSE result.v]

\* Expression.extend(functions)
StateExtend(functions) ==
  /\ heldExpression' = Replaced(heldExpression, extendState(heldExpression.state, functions))
  /\ call' = [op |-> "Expression.extend", functions |-> functions,
              result |-> Outcome(extendState(heldExpression.state, functions))]
  /\ UNCHANGED <<exprGlobalFunctions, activeConfig, heldEvaluator>>

NotedParse(held, steps, ok) ==
  [held EXCEPT !.parsed = @ \/ (ok /\ \E i \in DOMAIN steps : steps[i] = "parse")]

\* Expression.compile()
StateCompile ==
  /\ heldExpression' =
       NotedParse(Replaced(heldExpression, compileState(heldExpression.state)),
                  compileState(heldExpression.state).steps,
                  compileState(heldExpression.state).ok)
  /\ call' = [op |-> "Expression.compile",
              result |-> Outcome(compileState(heldExpression.state))]
  /\ UNCHANGED <<exprGlobalFunctions, activeConfig, heldEvaluator>>

\* Expression.evaluate(context)
StateEvaluate(context) ==
  /\ call' = [op |-> "Expression.evaluate", context |-> context,
              parsed |-> heldExpression.parsed,
              result |-> evaluateExpression(heldExpression.state, context)]
  /\ heldExpression' =
       NotedParse([heldExpression EXCEPT
                     !.state = evaluatedState(@,
                                 IF @.ast = <<>> THEN compileState(@) ELSE Stepped(Ok(@), <<>>))],
                  call'.result.steps,
                  \E i \in DOMAIN call'.result.steps : call'.result.steps[i] = "evaluateAst")
  /\ UNCHANGED <<exprGlobalFunctions, activeConfig, heldEvaluator>>

NextState ==
  \/ /\ call = NoCall
     /\ \/ \E options \in ClassOptions : StateConfigure(options)
        \/ \E functions \in ClassFunctions : StateExtend(functions)
        \/ StateCompile
        \/ \E context \in StateContexts : StateEvaluate(context)
  \/ TakeOutcome

SpecState == InitState /\ [][NextState]_vars

(***************************************************************************)
(* The class Expression that makes its interpreter anew: evaluate() sets   *)
(* this.interpreter = new Interpreter(context) before the walk.  `ast` is  *)
(* the empty sequence while the field is absent; `added` are the names the *)
(* host has added with an extend() that succeeded.                         *)
(***************************************************************************)
AnewSources ==
  { <<"@", "f", "(", "1", ")">>,
    <<"@", "f", "(", "a", ")">>,
    <<"@", "g", "(", ")">>,
    <<"a", " ", "+", " ", "1">>,
    <<"@", "m", "a", "x", "(", "1", ",", " ", "2", ")">>,
    <<"a", " ", "+">> }

\* new Interpreter(context): the functions default to {}
InterpreterOf(context) == [context |-> context, functions |-> <<>>]

\* catch (error) { if (error instanceof Error) throw new ExpressionError(error.message) }
MessageOnly(result) ==
  IF ~result.ok /\ result.v.k = "error"
    THEN [result EXCEPT !.v = Err("ExpressionError", result.v.msg, result.v.arg)]
    ELSE result

\* this.ast = this.parser.parse(tokens); return this
AstSet(expression, ast) ==
  IF ~ast.ok THEN MessageOnly(ast) ELSE Ok([expression EXCEPT !.ast = <<ast.v>>])

\* Expression.compile()
compileAnew(expression) == AstSet(expression, ParseAll(tokenize(expression.expression)))

\* this.interpreter = new Interpreter(context); return this.interpreter.evaluate(this.ast)
WalkAnew(expression, compiled, context) ==
  IF ~compiled.ok
    THEN [object |-> expression,
          result |-> [ok |-> FALSE, v |-> MessageOnly(compiled).v, log |-> <<>>]]
    ELSE [object |-> [compiled.v EXCEPT !.interpreter = InterpreterOf(context)],
          result |-> MessageOnly(InterpreterWalk(InterpreterOf(context), compiled.v.ast[1]))]

\* Expression.evaluate(context): the object afterwards and the outcome
evaluateAnew(expression, context) ==
  WalkAnew(expression,
           IF expression.ast = <<>> THEN compileAnew(expression) ELSE Ok(expression),
           context)

InitAnew ==
  /\ exprGlobalFunctions = SeededFunctions
  /\ activeConfig = defaultConfig
  /\ heldEvaluator = NoClosure
  /\ heldExpression \in {[made |-> TRUE, expression |-> expression,
                          interpreter |-> NewInterpreter, options |-> NewOptions,
                          ast |-> <<>>, added |-> {}] : expression \in AnewSources}
  /\ call = NoCall

Added(held, result, functions) ==
  IF result.ok THEN [result.v EXCEPT !.added = @ \cup DOMAIN functions] ELSE held

AnewExtend(functions) ==
  /\ heldExpression' = Added(heldExpression, extend(heldExpression, functions), functions)
  /\ call' = [op |-> "Expression.extend", functions |-> functions,
              result |-> Outcome(extend(heldExpression, functions))]
  /\ UNCHANGED <<exprGlobalFunctions, activeConfig, heldEvaluator>>

AnewCompile ==
  /\ heldExpression' = Extended(compileAnew(heldExpression))
  /\ call' = [op |-> "Expression.compile", result |-> Outcome(compileAnew(heldExpression))]
  /\ UNCHANGED <<exprGlobalFunctions, activeConfig, heldEvaluator>>

AnewEvaluate(context) ==
  /\ heldExpression' = evaluateAnew(heldExpression, context).object
  /\ call' = [op |-> "Expression.evaluate", context |-> context,
              result |-> evaluateAnew(heldExpression, context).result]
  /\ UNCHANGED <<exprGlobalFunctions, activeConfig, heldEvaluator>>

NextAnew ==
  \/ /\ call = NoCall
     /\ \/ \E options \in ClassOptions : ExpressionConfigure(options)
        \/ \E functions \in ClassFunctions : AnewExtend(functions)
        \/ AnewCompile
        \/ \E context \in StateContexts : AnewEvaluate(context)
  \/ TakeOutcome

SpecAnew == InitAnew /\ [][NextAnew]_vars

(***************************************************************************)
(* The parser on its own: the host tokenizes a source and parses the       *)
(* tokens.  `consumed` is the value of `current` when parse returns.       *)
(***************************************************************************)
MaxOperators == 3

ChainOperators == BinaryOperators \ {Op.not}

ChainOperands == <<"a", "b", "c", "d", "e", "f">>

\* a op1 b op2 c ...: the operands in order, joined by the operators
RECURSIVE ChainSource(_)
ChainSource(ops) ==
  IF ops = <<>> THEN <<ChainOperands[1]>>
  ELSE ChainSource(SubSeq(ops, 1, Len(ops) - 1))
         \o <<" ">> \o ops[Len(ops)] \o <<" ", ChainOperands[Len(ops) + 1]>>

Chains == {ChainSource(ops) : ops \in UNION {[1..n -> ChainOperators] : n \in 1..MaxOperators}}

\* operands of a conditional: the source text and the node it stands for
TernaryOperands ==
  { [src |-> <<"a">>, ast |-> Identifier(<<"a">>)],
    [src |-> <<"'", "y", "'">>, ast |-> RawLiteral(Str(<<"y">>), <<"\"", "y", "\"">>)],
    [src |-> <<"b", " ", "+", " ", "1">>,
     ast |-> BinaryExpression(Op.add, Identifier(<<"b">>), RawLiteral(Num(1), <<"1">>))] }

\* o1 ? o2 : o3 ? o4 : o5
TernarySource(o) ==
  o[1].src \o <<" ", "?", " ">> \o o[2].src \o <<" ", ":", " ">> \o o[3].src
    \o <<" ", "?", " ">> \o o[4].src \o <<" ", ":", " ">> \o o[5].src

TernarySources == {TernarySource(o) : o \in [1..5 -> TernaryOperands]}

\* a prefix operator in front of a member chain: the source text and the
\* node with the whole chain as the argument
UnaryCases ==
  { [src |-> <<"!", "a", ".", "b">>,
     ast |-> UnaryExpression(Op.not,
               MemberExpression(Identifier(<<"a">>), Identifier(<<"b">>), FALSE))],
    [src |-> <<"-", "a", "[", "0", "]">>,
     ast |-> UnaryExpression(Op.sub,
               MemberExpression(Identifier(<<"a">>), RawLiteral(Num(0), <<"0">>), TRUE))],
    [src |-> <<"-", "a", ".", "b">>,
     ast |-> UnaryExpression(Op.sub,
               MemberExpression(Identifier(<<"a">>), Identifier(<<"b">>), FALSE))],
    [src |-> <<"!", "a", ".", "b", ".", "c">>,
     ast |-> UnaryExpression(Op.not,
               MemberExpression(
                 MemberExpression(Identifier(<<"a">>), Identifier(<<"b">>), FALSE),
                 Identifier(<<"c">>), FALSE))],
    [src |-> <<"!", "a">>, ast |-> UnaryExpression(Op.not, Identifier(<<"a">>))] }

UnarySources == {case.src : case \in UnaryCases}

\* sources that are no single expression
InvalidSources ==
  { <<"x", " ", "+", " ", "y", ")">>,  \* x + y)
    <<"1", " ", "2">>,  \* 1 2
    <<"a", " ", "b">>,  \* a b
    <<"a", "-", "5">>,  \* a-5
    <<"@", "m", "a", "x", "(", "1", ",", " ", "2", ")", " ", "a">>,  \* @max(1, 2) a
    <<"(", "a">>,  \* (a
    <<"a", " ", "+">>,  \* a +
    <<"x", ".">>,  \* x.
    <<")">>,  \* )
    <<"a", " ", "?", " ", "b">>,  \* a ? b
    <<"a", "[", "0">>,  \* a[0
    <<"a", " ", "!", " ", "b">> }  \* a ! b

ParseSources == Chains \cup TernarySources \cup UnarySources \cup InvalidSources

MaxTokens == 3

TokenAlphabet ==
  { Token("IDENTIFIER", <<"a">>), Token("NUMBER", <<"1">>), Token("OPERATOR", Op.add),
    Token("OPERATOR", Op.not), Token("PAREN_LEFT", <<"(">>), Token("PAREN_RIGHT", <<")">>),
    Token("DOT", <<".">>), Token("QUESTION", <<"?">>), Token("COLON", <<":">>) }

TokenLists == UNION {[1..n -> TokenAlphabet] : n \in 0..MaxTokens}

\* parse(tokens): parseExpression() and the Program around its result
ParseOutcome(source, tokens, expression) ==
  [op |-> "parse", expression |-> source, tokens |-> tokens,
   result |-> ProgramOf(expression),
   consumed |-> IF expression.ok THEN expression.v.current ELSE 0]

TokenizeOutcome(source, tokens) ==
  IF ~tokens.ok THEN [op |-> "tokenize", expression |-> source, result |-> tokens]
  ELSE ParseOutcome(source, tokens.v, parseExpression(tokens.v, 0, 0))

Parse(source) ==
  /\ call' = TokenizeOutcome(source, tokenize(source))
  /\ UNCHANGED <<exprGlobalFunctions, activeConfig, heldEvaluator, heldExpression>>

\* parse called on a token list of the caller's own
ParseList(tokens) ==
  /\ call' = ParseOutcome(<<>>, tokens, parseExpression(tokens, 0, 0))
  /\ UNCHANGED <<exprGlobalFunctions, activeConfig, heldEvaluator, heldExpression>>

NextParse ==
  /\ call = NoCall
  /\ \/ \E source \in ParseSources : Parse(source)
     \/ \E tokens \in TokenLists : ParseList(tokens)

SpecParse == Init /\ [][NextParse]_vars

(***************************************************************************)
(* The objects of an AST.  The parser that keeps NULL_LITERAL,             *)
(* TRUE_LITERAL and FALSE_LITERAL builds the tree that parse builds, and   *)
(* returns one of these three module constants for a null or boolean       *)
(* token; every other node is an object literal, a new object each time it *)
(* is evaluated, which is told here by the Program and the path it stands  *)
(* at.  The host keeps the Programs that its parse calls returned.         *)
(***************************************************************************)
MaxPrograms == 2

SharedSources ==
  { <<"t", "r", "u", "e", " ", "&", "&", " ", "t", "r", "u", "e">>,
    <<"a", " ", "?", " ", "n", "u", "l", "l", " ", ":", " ", "n", "u", "l", "l">>,
    <<"n", "u", "l", "l">>,
    <<"t", "r", "u", "e">>,
    <<"a", " ", "+", " ", "1">>,
    <<"!", "f", "a", "l", "s", "e">>,
    <<"@", "f", "(", "t", "r", "u", "e", ",", " ", "1", ")">>,
    <<"x", ".", "y">>,
    <<"a", " ", "=", "=", "=", " ", "n", "u", "l", "l">>,
    <<"f", "a", "l", "s", "e", " ", "|", "|", " ", "a">>,
    <<"1", " ", "+", " ", "2", " ", "*", " ", "3">>,
    <<"t", "r", "u", "e", " ", "&", "&">> }

\* a node created by an object literal while parse number `program` ran
NewObject(program, path) == [constant |-> "", program |-> program, path |-> path]

\* const NULL_LITERAL = {...}; const TRUE_LITERAL = {...}; const FALSE_LITERAL = {...}
ModuleObject(name) == [constant |-> name, program |-> 0, path |-> <<>>]

\* the object parsePrimary and the other parsing functions return for a node
ObjectOf(node, program, path) ==
  IF node.type = "Literal" /\ node.value = Null THEN ModuleObject("NULL_LITERAL")
  ELSE IF node.type = "Literal" /\ node.value = Bool(TRUE) THEN ModuleObject("TRUE_LITERAL")
  ELSE IF node.type = "Literal" /\ node.value = Bool(FALSE) THEN ModuleObject("FALSE_LITERAL")
  ELSE NewObject(program, path)

\* the fields of a node that hold a node
Children(node) ==
  CASE node.type = "Program" -> {[step |-> Step("body"), node |-> node.body]}
    [] node.type = "MemberExpression" ->
         {[step |-> Step("object"), node |-> node.object],
          [step |-> Step("property"), node |-> node.property]}
    [] node.type = "CallExpression" ->
         {[step |-> Step("callee"), node |-> node.callee]}
           \cup {[step |-> ArgStep(i), node |-> node.arguments[i]] : i \in DOMAIN node.arguments}
    [] node.type = "BinaryExpression" ->
         {[step |-> Step("left"), node |-> node.left],
          [step |-> Step("right"), node |-> node.right]}
    [] node.type = "UnaryExpression" -> {[step |-> Step("argument"), node |-> node.argument]}
    [] node.type = "ConditionalExpression" ->
         {[step |-> Step("test"), node |-> node.test],
          [step |-> Step("consequent"), node |-> node.consequent],
          [step |-> Step("alternate"), node |-> node.alternate]}
    [] OTHER -> {}

\* every reference from a field of an object to a node object, below `node`
RECURSIVE References(_, _, _)
References(node, program, path) ==
  UNION { {[parent |-> NewObject(program, path), step |-> child.step,
            object |-> ObjectOf(child.node, program, Append(path, child.step))]}
            \cup References(child.node, program, Append(path, child.step))
          : child \in Children(node) }

Kept(programs, result) == IF result.ok THEN Append(programs, result.v) ELSE programs

\* parse(tokenize(source)), the Program joining the ones the host holds
ParseShared(source) ==
  /\ \/ call = NoCall
     \/ call.op = "parseShared" /\ Len(call.programs) < MaxPrograms
  /\ call' = [op |-> "parseShared", expression |-> source,
              programs |-> Kept(IF call = NoCall THEN <<>> ELSE call.programs,
                                ParseAll(tokenize(source))),
              result |-> ParseAll(tokenize(source))]
  /\ UNCHANGED <<exprGlobalFunctions, activeConfig, heldEvaluator, heldExpression>>

NextShared ==
  \/ \E source \in SharedSources : ParseShared(source)
  \/ TakeOutcome

SpecShared == Init /\ [][NextShared]_vars

(***************************************************************************)
(* Subtraction written with and without spaces: the host evaluates the     *)
(* two spellings of one subtraction over the same context.                 *)
(***************************************************************************)
MinusLeft ==
  { <<"a">>,  \* a
    <<"x", ".", "y">>,  \* x.y
    <<"5">>,  \* 5
    <<"1", "0">>,  \* 10
    <<"(", "a", ")">>,  \* (a)
    <<"a", " ", "*", " ", "2">>,  \* a * 2
    <<"@", "m", "a", "x", "(", "1", ",", " ", "2", ")">>,  \* @max(1, 2)
    <<"2", ".", "5">> }

\* right operands, each starting with a digit
MinusRight ==
  { <<"5">>,
    <<"3">>,
    <<"0">>,
    <<"1", ".", "5">>,
    <<"1", "0", " ", "*", " ", "2">> }

MinusContexts ==
  { (Word.a :> Num(10)) @@ (Word.x :> Obj("o1", (Word.y :> Num(7)))),
    (Word.a :> Num(0)) @@ (Word.x :> Obj("o1", (Word.y :> Str(<<"4">>)))),
    (Word.a :> Str(<<"8">>)) @@ (Word.x :> Obj("o3", <<>>)) }

EvaluateBoth(l, r, context) ==
  /\ call' = [op |-> "minus", left |-> l, right |-> r, context |-> context,
              tight  |-> Seen(evaluate(l \o <<"-">> \o r, context, activeConfig.blackList)),
              spaced |-> Seen(evaluate(l \o <<" ", "-", " ">> \o r, context,
                                       activeConfig.blackList))]
  /\ UNCHANGED <<exprGlobalFunctions, activeConfig, heldEvaluator, heldExpression>>

NextMinus ==
  /\ call = NoCall
  /\ \E l \in MinusLeft, r \in MinusRight, context \in MinusContexts :
       EvaluateBoth(l, r, context)

SpecMinus == Init /\ [][NextMinus]_vars

(***************************************************************************)
(* Evaluation under a timeout.  evaluate() of the asynchronous API runs    *)
(* the evaluation inside executeWithTimeout, which races the promise of    *)
(* the result against a timer.  The call in flight holds the promise of    *)
(* the result (fn), the timer, the race and the promise the caller got     *)
(* (returned).  A host function that returned a promise settles it later,  *)
(* and the timer fires when maxTimeout ms have passed.                     *)
(***************************************************************************)
Pending == [state |-> "pending"]
Fulfilled(v) == [state |-> "fulfilled", v |-> v]
Rejected(e) == [state |-> "rejected", v |-> e]

\* new Promise((resolve, reject) => { try { resolve(fn()) } catch (err) { reject(err) } }):
\* a promise that fn returned is followed, any other value fulfils
fnPromise(result) ==
  IF ~result.ok THEN Rejected(result.v)
  ELSE IF result.v.k = "promise" THEN Pending
  ELSE Fulfilled(result.v)

\* a race that the promise settling last decides
PromiseRaceLast(race, settled) == settled

\* Promise.race: the promise that settles first decides, once and for all
PromiseRace(race, settled) == IF race.state = "pending" THEN settled ELSE race

\* new ExpressionError(`Evaluation timed out after ${maxTimeout}ms`)
TimedOut(maxTimeout) ==
  Err("ExpressionError", "Evaluation timed out after ms", NatToString(maxTimeout))

\* catch (error): an Error is thrown on as it is, any other value inside an
\* ExpressionError
Caught(race) ==
  IF race.state = "rejected" /\ race.v.k # "error"
    THEN Rejected(Err("ExpressionError", "Unknown error during evaluation: ",
                      ToStringValue(race.v)))
    ELSE race

\* fnPromise.then(() => clearTimeout(timeoutId)).catch(() => {})
ClearTimeout(timer, fn) == IF fn.state = "fulfilled" /\ timer = "armed" THEN "cleared" ELSE timer

\* executeWithTimeout up to its await, and the reactions to a promise of the
\* result that is settled already
executeWithTimeout(fn, maxTimeout) ==
  [fn |-> fn, maxTimeout |-> maxTimeout,
   timer |-> ClearTimeout("armed", fn),
   race |-> IF fn.state = "pending" THEN Pending ELSE PromiseRace(Pending, fn),
   returned |-> IF fn.state = "pending" THEN Pending ELSE Caught(PromiseRace(Pending, fn))]

\* a throw in front of executeWithTimeout rejects the promise of evaluate()
NotStarted(error) ==
  [fn |-> Rejected(error), maxTimeout |-> 0, timer |-> "none", race |-> Rejected(error),
   returned |-> Rejected(error)]

\* evaluate(expression, context) of the asynchronous API
evaluateAsync(compiled, context, maxTimeout) ==
  IF ~compiled.ok THEN NotStarted(compiled.v)
  ELSE executeWithTimeout(fnPromise(evaluator(compiled.v, context)), maxTimeout)

TimeoutFunctions ==
  register(register(register(SeededFunctions, Word.boom, Fn("boom")),
                    <<"t", "h", "r", "o", "w", "S", "t", "r", "i", "n", "g">>, Fn("throwString")),
           <<"l", "a", "t", "e", "r">>, Fn("later"))

TimeoutSources ==
  { <<"@", "l", "a", "t", "e", "r", "(", ")">>,
    <<"a", " ", "?", " ", "@", "l", "a", "t", "e", "r", "(", ")", " ", ":", " ", "1">>,
    <<"@", "b", "o", "o", "m", "(", ")">>,
    <<"@", "t", "h", "r", "o", "w", "S", "t", "r", "i", "n", "g", "(", ")">>,
    <<"1", " ", "+", " ", "2">>,
    <<"a">>,
    <<"@", "m", "a", "x", "(", "a", ",", " ", "2", ")">>,
    <<"x", ".", "y">>,
    <<"t", "h", "i", "s">>,
    <<"(", "1">> }

TimeoutConfigs == {[maxTimeout |-> 5000], [maxTimeout |-> 1]}

\* what the promise of an asynchronous host function settles with
HostOutcomes ==
  { Fulfilled(Num(1)), Fulfilled(Str(<<"y">>)),
    Rejected(Err("Error", "late", <<>>)), Rejected(Str(<<"n", "o">>)) }

InitTimeout ==
  /\ exprGlobalFunctions = TimeoutFunctions
  /\ activeConfig = defaultConfig
  /\ heldEvaluator = NoClosure
  /\ heldExpression = NoExpression
  /\ call = NoCall

EvaluateAsync(source, context) ==
  /\ call' = [op |-> "evaluateAsync", expression |-> source, context |-> context]
               @@ evaluateAsync(compileSync(source, activeConfig.blackList), context,
                                activeConfig.maxTimeout)
  /\ UNCHANGED <<exprGlobalFunctions, activeConfig, heldEvaluator, heldExpression>>

\* the promise the host function returned settles
HostSettles(outcome) ==
  /\ call.op = "evaluateAsync"
  /\ call.fn.state = "pending"
  /\ call' = [call EXCEPT !.fn = outcome,
                          !.timer = ClearTimeout(@, outcome),
                          !.race = PromiseRace(@, outcome),
                          !.returned = Caught(PromiseRace(call.race, outcome))]
  /\ UNCHANGED <<exprGlobalFunctions, activeConfig, heldEvaluator, heldExpression>>

\* maxTimeout ms have passed: reject(new ExpressionError(...))
TimerFires ==
  /\ call.op = "evaluateAsync"
  /\ call.timer = "armed"
  /\ call' = [call EXCEPT !.timer = "fired",
                          !.race = PromiseRace(@, Rejected(TimedOut(call.maxTimeout))),
                          !.returned = Caught(PromiseRace(call.race,
                                                          Rejected(TimedOut(call.maxTimeout))))]
  /\ UNCHANGED <<exprGlobalFunctions, activeConfig, heldEvaluator, heldExpression>>

\* the host takes the outcome once the promise it awaits has settled
TakeSettled ==
  /\ call.op = "evaluateAsync" => call.returned.state # "pending"
  /\ TakeOutcome

NextTimeout ==
  \/ /\ call = NoCall
     /\ \/ \E config \in TimeoutConfigs : Configure(config)
        \/ \E source \in TimeoutSources, context \in ApiContexts : EvaluateAsync(source, context)
        \/ \E source \in TimeoutSources, context \in ApiContexts : Evaluate(source, context)
  \/ \E outcome \in HostOutcomes : HostSettles(outcome)
  \/ TimerFires
  \/ TakeSettled

SpecTimeout == InitTimeout /\ [][NextTimeout]_vars

(***************************************************************************)
(* The tokenizer turn by turn: the host calls tokenize on a source and the *)
(* loop of tokenize runs one iteration at a time.  `call` holds the        *)
(* variables of the running call: input, pos and tokens.                   *)
(***************************************************************************)
MaxChars == 3

SourceAlphabet == {"1", "-", ".", " ", "a", "'", "\\", "#", "=", "@"}

SourceTexts == UNION {[1..n -> SourceAlphabet] : n \in 0..MaxChars}

\* let pos = 0; const input = expr; const tokens = []
tokenizeLoop(expr) ==
  [op |-> "tokenize", input |-> expr, pos |-> 0, tokens |-> <<>>,
   state |-> "running", error |-> <<>>]

\* a loop that drops the character it cannot read
tokenizeTurnSkipping(loop) ==
  IF loop.pos >= Len(loop.input) THEN [loop EXCEPT !.state = "returned"]
  ELSE [loop EXCEPT !.pos = @ + 1]

\* tokens.push(token); continue, or the error of the reader leaves tokenize
tokenizePush(loop, read) ==
  IF ~read.ok THEN [loop EXCEPT !.state = "thrown", !.error = read.v]
  ELSE [loop EXCEPT !.pos = read.v.pos, !.tokens = Append(@, read.v.token)]

\* one test of while (pos < input.length) and the iteration it lets in
tokenizeTurn(loop) ==
  IF loop.pos >= Len(loop.input) THEN [loop EXCEPT !.state = "returned"]
  ELSE IF IsSpace(loop.input[loop.pos + 1]) THEN [loop EXCEPT !.pos = @ + 1]
  ELSE tokenizePush(loop, readToken(loop.input, loop.pos, loop.input[loop.pos + 1]))

Tokenize(source) ==
  /\ call' = tokenizeLoop(source)
  /\ UNCHANGED <<exprGlobalFunctions, activeConfig, heldEvaluator, heldExpression>>

TokenizeTurn ==
  /\ call.op = "tokenize"
  /\ call.state = "running"
  /\ call' = tokenizeTurn(call)
  /\ UNCHANGED <<exprGlobalFunctions, activeConfig, heldEvaluator, heldExpression>>

\* the caller has the token list or the error
TakeTokens ==
  /\ call.op = "tokenize"
  /\ call.state # "running"
  /\ TakeOutcome

NextTokenize ==
  \/ /\ call = NoCall
     /\ \E source \in SourceTexts : Tokenize(source)
  \/ TokenizeTurn
  \/ TakeTokens

SpecTokenize == Init /\ [][NextTokenize]_vars

(***************************************************************************)
(* Reading the history of a walk.                                          *)
(***************************************************************************)
Front(path) == SubSeq(path, 1, Len(path) - 1)
Last(path) == path[Len(path)]
IsPrefix(p, q) == Len(p) <= Len(q) /\ SubSeq(q, 1, Len(p)) = p

\* the node a path leads to from the node `node`
RECURSIVE NodeAt(_, _)
NodeAt(node, path) ==
  IF path = <<>> THEN node
  ELSE LET step == Head(path)
           child ==
             CASE step.f = "arguments"  -> node.arguments[step.i]
               [] step.f = "object"     -> node.object
               [] step.f = "property"   -> node.property
               [] step.f = "left"       -> node.left
               [] step.f = "right"      -> node.right
               [] step.f = "argument"   -> node.argument
               [] step.f = "test"       -> node.test
               [] step.f = "consequent" -> node.consequent
               [] step.f = "alternate"  -> node.alternate
       IN NodeAt(child, Tail(path))

Evaluated == call.op = "evaluateAst"
Log == call.result.log
Events(kind) == {i \in DOMAIN Log : Log[i].e = kind}
\* the node at p, or a node below it, was entered
Entered(p) == \E i \in Events("node") : IsPrefix(p, Log[i].path)
\* the node at p returned the value v
Returned(p, v) == \E i \in Events("done") : Log[i].path = p /\ Log[i].v = v
FailedWith(class, msg, arg) ==
  /\ ~call.result.ok
  /\ call.result.v = Err(class, msg, arg)

(***************************************************************************)
(* C1.  && and || short-circuit: when the left operand of && is falsy or   *)
(* the left operand of || is truthy, no node of the right operand is       *)
(* evaluated, and the expression yields the left operand's value.              *)
(***************************************************************************)
LeftDecides(operator, v) ==
  \/ operator = Op.and /\ ~Truthy(v)
  \/ operator = Op.or /\ Truthy(v)

C1_ShortCircuit ==
  Evaluated =>
    \A i \in Events("done") :
      LET p == Log[i].path IN
      (/\ p # <<>>
       /\ Last(p) = Step("left")
       /\ NodeAt(call.ast.body, Front(p)).type = "BinaryExpression"
       /\ LeftDecides(NodeAt(call.ast.body, Front(p)).operator, Log[i].v))
      => /\ ~Entered(Append(Front(p), Step("right")))
         /\ Returned(Front(p), Log[i].v)

(***************************************************************************)
(* C2.  A conditional evaluates its test and then exactly one branch: the  *)
(* consequent when the test is truthy, the alternate otherwise.  Nothing   *)
(* of the other branch is evaluated; when the test fails, neither is.      *)
(***************************************************************************)
C2_OneBranch ==
  Evaluated =>
    \A i \in Events("node") :
      LET p == Log[i].path
          test == Append(p, Step("test"))
          consequent == Append(p, Step("consequent"))
          alternate == Append(p, Step("alternate"))
      IN NodeAt(call.ast.body, p).type = "ConditionalExpression" =>
           /\ Entered(test)
           /\ \A j \in Events("done") :
                Log[j].path = test =>
                  IF Truthy(Log[j].v)
                    THEN Entered(consequent) /\ ~Entered(alternate)
                    ELSE Entered(alternate) /\ ~Entered(consequent)
           /\ (~\E j \in Events("done") : Log[j].path = test)
                => ~Entered(consequent) /\ ~Entered(alternate)

\* a conditional took its consequent and returned, although its alternate
\* calls a function that throws
C2_Witness ==
  /\ Evaluated
  /\ call.result.ok
  /\ call.ast.body.type = "ConditionalExpression"
  /\ call.ast.body.alternate = CallExpression(Word.boom, <<>>)
  /\ Entered(<<Step("consequent")>>)

(***************************************************************************)
(* C8.  An Identifier whose name is not a key of the context fails with    *)
(* "Undefined variable": the node returns no value and the evaluation      *)
(* ends with that error.                                                   *)
(***************************************************************************)
C8_UndefinedVariable ==
  Evaluated =>
    \A i \in Events("node") :
      LET node == NodeAt(call.ast.body, Log[i].path) IN
      (node.type = "Identifier" /\ node.name \notin DOMAIN call.context)
        => /\ ~\E j \in Events("done") : Log[j].path = Log[i].path
           /\ FailedWith("ExpressionError", "Undefined variable: ", node.name)

(***************************************************************************)
(* C9.  A call of a name that is not registered fails with "Undefined      *)
(* function", before any argument is evaluated and without a host          *)
(* function being invoked for it.                                          *)
(***************************************************************************)
C9_UndefinedFunction ==
  Evaluated =>
    \A i \in Events("node") :
      LET p == Log[i].path
          node == NodeAt(call.ast.body, p)
      IN (node.type = "CallExpression"
            /\ node.callee.name \notin DOMAIN exprGlobalFunctions)
           => /\ FailedWith("ExpressionError", "Undefined function: ", node.callee.name)
              /\ \A j \in DOMAIN node.arguments : ~Entered(Append(p, ArgStep(j)))
              /\ ~\E j \in Events("call") : Log[j].path = p

(***************************************************************************)
(* C10.  A member access whose object is null or undefined fails with the  *)
(* null-property-access error; one whose object is an object or an array   *)
(* that lacks the key returns undefined.                                   *)
(***************************************************************************)
\* the key a member expression at p looked up, when it got as far as that
KeysAt(body, p) ==
  LET node == NodeAt(body, p) IN
  IF node.computed
    THEN {ToStringValue(Log[j].v) :
            j \in {n \in Events("done") : Log[n].path = Append(p, Step("property"))}}
    ELSE {node.property.name}

C10_MemberAccess ==
  Evaluated =>
    \A i \in Events("done") :
      LET q == Log[i].path
          object == Log[i].v
      IN (/\ q # <<>>
          /\ Last(q) = Step("object")
          /\ NodeAt(call.ast.body, Front(q)).type = "MemberExpression")
         => /\ object.k \in {"null", "undefined"}
                 => FailedWith("ExpressionError",
                               "Cannot access property of null or undefined", <<>>)
            /\ object.k = "object"
                 => \A key \in KeysAt(call.ast.body, Front(q)) :
                      key \notin OwnKeys(object) => Returned(Front(q), Undefined)

(***************************************************************************)
(* C3.  The class-based Expression does not retain the context of a call:  *)
(* an identifier that the context of this evaluate() call does not hold    *)
(* (and that Object.prototype does not provide) yields no value, and the   *)
(* call fails with an ExpressionError, whatever earlier calls supplied.    *)
(***************************************************************************)
C3_ContextNotRetained ==
  call.op = "Expression.evaluate" =>
    \A i \in Events("node") :
      LET node == NodeAt(heldExpression.ast.body, Log[i].path) IN
      (/\ node.type = "Identifier"
       /\ node.name \notin DOMAIN call.context
       /\ node.name \notin ObjectPrototypeKeys)
        => /\ ~\E j \in Events("done") : Log[j].path = Log[i].path
           /\ ~call.result.ok
           /\ call.result.v.class = "ExpressionError"

(***************************************************************************)
(* C4.  An evaluator resolves each callee in the registry as it is when    *)
(* the evaluator runs: a call of a registered name does not fail as an     *)
(* undefined function, it invokes the function registered under the name   *)
(* at that moment, and it invokes it once its arguments are evaluated.     *)
(***************************************************************************)
C4_LiveRegistry ==
  call.op = "evaluator" =>
    \A i \in Events("node") :
      LET p == Log[i].path
          node == NodeAt(heldEvaluator.closure.ast.body, p)
      IN (node.type = "CallExpression"
            /\ node.callee.name \in DOMAIN exprGlobalFunctions)
           => /\ ~FailedWith("ExpressionError", "Undefined function: ", node.callee.name)
              /\ \A j \in Events("call") :
                   Log[j].path = p => Log[j].func = exprGlobalFunctions[node.callee.name].name
              /\ (\A a \in DOMAIN node.arguments :
                    \E j \in Events("done") : Log[j].path = Append(p, ArgStep(a)))
                   => \E j \in Events("call") : Log[j].path = p

\* an evaluator compiled before f was registered and before max was
\* overwritten invokes both as they are registered when it runs
C4_Witness ==
  /\ call.op = "evaluator"
  /\ Word.f \notin DOMAIN heldEvaluator.registered
  /\ heldEvaluator.registered[Word.max] = Fn("Math.max")
  /\ \E i \in Events("call"), j \in Events("call") :
       /\ NodeAt(heldEvaluator.closure.ast.body, Log[i].path).callee.name = Word.f
       /\ Log[i].func \in {"one", "two"}
       /\ NodeAt(heldEvaluator.closure.ast.body, Log[j].path).callee.name = Word.max
       /\ Log[j].func \in {"one", "two"}

(***************************************************************************)
(* C5.  Under the default configuration a source that holds one of the     *)
(* words constructor, __proto__, prototype, this, window, global, eval,    *)
(* Function as a whole word is rejected by compile and by evaluate with    *)
(* the blacklist error, and it is not tokenized.                           *)
(***************************************************************************)
Blacklisted(result) ==
  /\ ~result.ok
  /\ result.v.class = "ExpressionError"
  /\ result.v.msg = "Blacklisted keywords detected in expression"

C5_DefaultBlackList ==
  (/\ call.op \in {"compileSync", "evaluate"}
   /\ activeConfig = defaultConfig
   /\ \E word \in { Word.constructor, Word.proto, Word.prototype, Word.this,
                    Word.window, Word.global, Word.eval, Word.Function } :
        MatchesWord(call.expression, word))
    => /\ Blacklisted(call.result)
       /\ \A i \in DOMAIN call.result.steps : call.result.steps[i] # "tokenize"

(***************************************************************************)
(* C6.  Once configure has replaced the blacklist by a set S, compile and  *)
(* evaluate reject a source with the blacklist error exactly when it       *)
(* holds a member of S as a whole word; with S empty nothing is rejected   *)
(* for the blacklist.                                                      *)
(***************************************************************************)
C6_ConfiguredBlackList ==
  (/\ call.op \in {"compileSync", "evaluate"}
   /\ activeConfig.blackList # defaultConfig.blackList)
    => (Blacklisted(call.result)
          <=> \E word \in activeConfig.blackList : MatchesWord(call.expression, word))

(***************************************************************************)
(* C7.  A source that passes the default blacklist, evaluated over plain   *)
(* data, never yields from a member access a value that the object does    *)
(* not own: a key that is no own property of the object gives undefined.   *)
(***************************************************************************)
C7_NoInheritedProperty ==
  (/\ call.op = "evaluate"
   /\ activeConfig.blackList = defaultConfig.blackList
   /\ "ast" \in DOMAIN call.result)
    => \A i \in Events("done") :
         LET q == Log[i].path
             object == Log[i].v
         IN (q # <<>> /\ Last(q) = Step("object") /\ object.k = "object")
              => \A key \in KeysAt(call.result.ast.body, Front(q)) :
                   key \notin OwnKeys(object)
                     => \A j \in Events("done") :
                          Log[j].path = Front(q) => Log[j].v = Undefined

(***************************************************************************)
(* C11.  Over numbers, strings, booleans and null, a + b is the numeric    *)
(* sum when both operands are numbers, and otherwise the concatenation of  *)
(* the string forms of the two operands.                                   *)
(***************************************************************************)
PlainKinds == {"number", "string", "boolean", "null"}

\* the sum the claim describes
SumOrConcatenation(l, r) ==
  IF l.k = "number" /\ r.k = "number"
    THEN NumAdd(l, r)
    ELSE Str(ToStringValue(l) \o ToStringValue(r))

C11_Addition ==
  Evaluated =>
    \A i \in Events("done"), j \in Events("done"), n \in Events("done") :
      LET p == Log[n].path
          node == NodeAt(call.ast.body, p)
      IN (/\ node.type = "BinaryExpression"
          /\ node.operator = Op.add
          /\ Log[i].path = Append(p, Step("left"))
          /\ Log[j].path = Append(p, Step("right"))
          /\ Log[i].v.k \in PlainKinds
          /\ Log[j].v.k \in PlainKinds)
           => Log[n].v = SumOrConcatenation(Log[i].v, Log[j].v)

(***************************************************************************)
(* C12.  A chain of binary operators without parentheses is grouped by     *)
(* the precedence table || < && < === !== < > >= < <= < + - < * / %: a     *)
(* higher operator binds tighter than a lower one, and operators of equal  *)
(* precedence associate from left to right.                                *)
(***************************************************************************)
TableLevel(operator) ==
  CASE operator = Op.or -> 1
    [] operator = Op.and -> 2
    [] operator \in {Op.eq, Op.ne} -> 3
    [] operator \in {Op.gt, Op.ge, Op.lt, Op.le} -> 4
    [] operator \in {Op.add, Op.sub} -> 5
    [] operator \in {Op.mul, Op.div, Op.mod} -> 6

\* the operands and operators of a tree of binary expressions, left to right
RECURSIVE InOrder(_)
InOrder(node) ==
  IF node.type = "BinaryExpression"
    THEN InOrder(node.left) \o <<node.operator>> \o InOrder(node.right)
    ELSE IF node.type = "Identifier" THEN <<node.name>> ELSE <<node.type>>

\* no operand of a binary expression is a looser binary expression, and no
\* right operand is one of the same level
RECURSIVE Grouped(_)
Grouped(node) ==
  node.type = "BinaryExpression" =>
    /\ node.left.type = "BinaryExpression"
         => TableLevel(node.left.operator) >= TableLevel(node.operator)
    /\ node.right.type = "BinaryExpression"
         => TableLevel(node.right.operator) > TableLevel(node.operator)
    /\ Grouped(node.left)
    /\ Grouped(node.right)

C12_Precedence ==
  (call.op \in {"tokenize", "parse"} /\ call.expression \in Chains)
    => /\ call.op = "parse"
       /\ call.result.ok
       /\ InOrder(call.result.v.body) = [i \in DOMAIN call.tokens |-> call.tokens[i].value]
       /\ Grouped(call.result.v.body)

\* a - b * c - d is ((a - (b * c)) - d)
C12_Witness ==
  /\ call.op = "parse"
  /\ call.expression = ChainSource(<<Op.sub, Op.mul, Op.sub>>)
  /\ call.result.ok
  /\ call.result.v.body =
       BinaryExpression(Op.sub,
         BinaryExpression(Op.sub, Identifier(<<"a">>),
           BinaryExpression(Op.mul, Identifier(<<"b">>), Identifier(<<"c">>))),
         Identifier(<<"d">>))

(***************************************************************************)
(* C13.  The conditional operator is right-associative: a ? b : c ? d : e  *)
(* parses as a ? b : (c ? d : e), the second conditional being the         *)
(* alternate of the first.                                                 *)
(***************************************************************************)
C13_TernaryRightAssociative ==
  call.op \in {"tokenize", "parse"} =>
    \A o \in [1..5 -> TernaryOperands] :
      call.expression = TernarySource(o)
        => /\ call.op = "parse"
           /\ call.result.ok
           /\ call.result.v.body =
                ConditionalExpression(o[1].ast, o[2].ast,
                  ConditionalExpression(o[3].ast, o[4].ast, o[5].ast))

\* b + 1 ? a : a ? 'y' : b + 1
C13_Witness ==
  /\ call.op = "parse"
  /\ call.result.ok
  /\ call.result.v.body.type = "ConditionalExpression"
  /\ call.result.v.body.test.type = "BinaryExpression"
  /\ call.result.v.body.consequent = Identifier(<<"a">>)
  /\ call.result.v.body.alternate.type = "ConditionalExpression"
  /\ call.result.v.body.alternate.test = Identifier(<<"a">>)
  /\ call.result.v.body.alternate.consequent.type = "Literal"
  /\ call.result.v.body.alternate.alternate.type = "BinaryExpression"
  /\ call.consumed = Len(call.tokens)

(***************************************************************************)
(* C14.  Member access binds tighter than prefix ! and -: the argument of  *)
(* the UnaryExpression is the whole member chain that follows the          *)
(* operator, so !a.b is !(a.b) and -a[0] is -(a[0]).                       *)
(***************************************************************************)
C14_UnaryOverMember ==
  call.op \in {"tokenize", "parse"} =>
    \A case \in UnaryCases :
      call.expression = case.src
        => /\ call.op = "parse"
           /\ call.result.ok
           /\ call.result.v.body = case.ast

(***************************************************************************)
(* C15.  Whether a minus sign is written with or without spaces around it  *)
(* makes no difference: for a right operand that starts with a digit, L-R  *)
(* evaluates to what L - R evaluates to.                                   *)
(***************************************************************************)
C15_MinusWithoutSpaces ==
  call.op = "minus" => call.tight = call.spaced

(***************************************************************************)
(* C16.  parse either builds a Program that accounts for every token or    *)
(* throws an ExpressionError: it never returns a Program while tokens      *)
(* remain unconsumed.                                                      *)
(***************************************************************************)
C16_EveryTokenConsumed ==
  call.op = "parse" =>
    IF call.result.ok
      THEN call.consumed = Len(call.tokens)
      ELSE call.result.v.k = "error" /\ call.result.v.class = "ExpressionError"

(***************************************************************************)
(* C17.  Strict mode gates extend: an Expression starts in strict mode;    *)
(* extend() in strict mode throws an ExpressionError and adds no function  *)
(* to the Expression; extend() outside strict mode adds every function it  *)
(* is given.                                                               *)
(***************************************************************************)
ExtendGated ==
  (call.op = "none" /\ call'.op = "Expression.extend") =>
    IF heldExpression.options.strictMode
      THEN /\ ~call'.result.ok
           /\ call'.result.v.class = "ExpressionError"
           /\ heldExpression'.interpreter.functions = heldExpression.interpreter.functions
      ELSE /\ call'.result.ok
           /\ \A name \in DOMAIN call'.functions :
                /\ name \in DOMAIN heldExpression'.interpreter.functions
                /\ heldExpression'.interpreter.functions[name] = call'.functions[name]

C17_StrictModeGatesExtend ==
  /\ heldExpression.options.strictMode
  /\ [][ExtendGated]_vars

\* extend is refused in strict mode by an Expression that was extended
\* earlier, while strict mode was off
C17_Witness ==
  /\ call.op = "Expression.extend"
  /\ ~call.result.ok
  /\ heldExpression.options.strictMode
  /\ Word.f \in DOMAIN heldExpression.interpreter.functions

(***************************************************************************)
(* C18.  Every failure of an evaluation reaches the caller of evaluate()   *)
(* as an ExpressionError: an Error thrown by a host function with its own  *)
(* message, a thrown value that is no Error with the unknown-error         *)
(* message.                                                                *)
(***************************************************************************)
Surfaced(error, source) ==
  /\ error.k = "error"
  /\ error.class = "ExpressionError"
  /\ source = <<"@", "b", "o", "o", "m", "(", ")">> => error.msg = "boom"
  /\ source = <<"@", "t", "h", "r", "o", "w", "S", "t", "r", "i", "n", "g", "(", ")">> => error.msg = "Unknown error during evaluation: "

C18_ErrorsWrapped ==
  /\ (call.op = "evaluate" /\ ~call.result.ok)
       => Surfaced(call.result.v, call.expression)
  /\ (call.op = "evaluateAsync" /\ call.returned.state = "rejected")
       => Surfaced(call.returned.v, call.expression)

(***************************************************************************)
(* C19.  executeWithTimeout settles once and all-or-nothing: the promise   *)
(* it returned never changes once settled; when the timer fires while the  *)
(* result is pending the promise rejects with the timed-out error, and a   *)
(* result that arrives later is discarded; when the result settles while   *)
(* the timer is armed the promise takes that outcome and not the           *)
(* timed-out error.                                                        *)
(***************************************************************************)
TimeoutAllOrNothing ==
  (call.op = "evaluateAsync" /\ call'.op = "evaluateAsync") =>
    /\ call.returned.state # "pending" => call'.returned = call.returned
    /\ (call.fn.state = "pending" /\ call.timer = "armed" /\ call'.timer = "fired")
         => call'.returned = Rejected(TimedOut(call.maxTimeout))
    /\ (call.fn.state = "pending" /\ call.timer = "armed" /\ call'.fn.state = "fulfilled")
         => call'.returned = call'.fn
    /\ (call.fn.state = "pending" /\ call.timer = "armed" /\ call'.fn.state = "rejected")
         => /\ call'.returned.state = "rejected"
            /\ call'.returned.v # TimedOut(call.maxTimeout)

C19_SettlesOnce == [][TimeoutAllOrNothing]_vars

\* the timer fired first, and the result that arrived afterwards was discarded
C19_Witness ==
  /\ call.op = "evaluateAsync"
  /\ call.timer = "fired"
  /\ call.fn.state = "fulfilled"
  /\ call.returned = Rejected(TimedOut(call.maxTimeout))

DigitsAndOneDot(value, from) ==
  /\ from <= Len(value)
  /\ IsDigit(value[from])
  /\ \A i \in from..Len(value) : IsDigit(value[i]) \/ value[i] = "."
  /\ \A i, j \in from..Len(value) : (value[i] = "." /\ value[j] = ".") => i = j

NumberForm(value) ==
  /\ value # <<>>
  /\ DigitsAndOneDot(value, IF value[1] = "-" THEN 2 ELSE 1)

C21_NumberForm ==
  call.op = "tokenize" =>
    \A i \in DOMAIN call.tokens :
      call.tokens[i].type = "NUMBER" => NumberForm(call.tokens[i].value)

(***************************************************************************)
(* C30.  Every iteration of the loop of tokenize either moves pos forward  *)
(* or throws an ExpressionError; tokenize returns only with pos at the end *)
(* of the input; and an iteration that pushes no token has moved over one  *)
(* whitespace character, so that no other character is dropped.            *)
(***************************************************************************)
TokenizeAdvances ==
  (call.op = "tokenize" /\ call.state = "running" /\ call'.op = "tokenize") =>
    CASE call'.state = "thrown" ->
           /\ call'.error.k = "error"
           /\ call'.error.class = "ExpressionError"
      [] call'.state = "returned" ->
           /\ call.pos = Len(call.input)
           /\ call'.pos = call.pos
           /\ call'.tokens = call.tokens
      [] OTHER ->
           /\ call'.pos > call.pos
           /\ call'.pos <= Len(call.input)
           /\ Len(call'.tokens) = Len(call.tokens) =>
                (call'.pos = call.pos + 1 /\ call.input[call.pos + 1] = " ")
           /\ Len(call'.tokens) <= Len(call.tokens) + 1

C30_TokenizeTerminates == [][TokenizeAdvances]_vars

\* tokenize has returned the tokens of a source with a space in it
C30_Witness ==
  /\ call.op = "tokenize"
  /\ call.state = "returned"
  /\ Len(call.tokens) = 2
  /\ \E i \in DOMAIN call.input : call.input[i] = " "

(***************************************************************************)
(* C22.  An Expression is compiled at most once: an evaluate() on an       *)
(* Expression whose source has been parsed before, by compile() or by an   *)
(* earlier evaluate(), neither tokenizes nor parses again.                 *)
(***************************************************************************)
C22_CompiledOnce ==
  (call.op = "Expression.evaluate" /\ call.parsed) =>
    \A i \in DOMAIN call.result.steps : call.result.steps[i] \notin {"tokenize", "parse"}

(***************************************************************************)
(* C23.  The AST is a strict tree owned by its Program: no node object is  *)
(* referenced as a child from two places, within one Program or from two   *)
(* Programs of separate parse calls.                                       *)
(***************************************************************************)
C23_StrictTree ==
  call.op = "parseShared" =>
    \A p, q \in DOMAIN call.programs :
      \A r \in References(call.programs[p], p, <<>>) :
        \A t \in References(call.programs[q], q, <<>>) :
          r.object = t.object => r = t

(***************************************************************************)
(* C24.  Functions added with extend() stay registered on the Expression:  *)
(* no evaluate() after the extend, whatever its context and the number of  *)
(* evaluate() calls before it, reports an added function as undefined.     *)
(***************************************************************************)
UndefinedFunction(result, name) ==
  /\ ~result.ok
  /\ result.v.k = "error"
  /\ result.v.arg = name
  /\ result.v.msg \in {"Undefined function: ", "Evaluation error: Undefined function: "}

C24_ExtendedStay ==
  call.op = "Expression.evaluate" =>
    \A name \in heldExpression.added : ~UndefinedFunction(call.result, name)

FailsAtEnd(tokens, result) ==
  \/ result.ok
  \/ /\ result.v.position = Len(tokens)
     /\ result.v.token = EndOfInput

C26_ParseErrorPlace ==
  (call.op = "parse" /\ ~call.result.ok) =>
    /\ call.result.v.k = "error"
    /\ call.result.v.class = "ExpressionError"
    /\ {"position", "token"} \subseteq DOMAIN call.result.v
    /\ call.result.v.position \in 0..Len(call.tokens)
    /\ call.result.v.token =
         IF call.result.v.position < Len(call.tokens)
           THEN call.tokens[call.result.v.position + 1].value
           ELSE EndOfInput
    /\ FailsAtEnd(SubSeq(call.tokens, 1, call.result.v.position),
                  parse(SubSeq(call.tokens, 1, call.result.v.position)))

\* parse failed at a token in the middle of the list
C26_Witness ==
  /\ call.op = "parse"
  /\ ~call.result.ok
  /\ call.result.v.position > 0
  /\ call.result.v.position < Len(call.tokens)

C28_TimerCancelled ==
  (call.op = "evaluateAsync" /\ call.fn.state # "pending") => call.timer # "armed"

(***************************************************************************)
(* C29.  Every BinaryExpression of a Program that parse returns has one of *)
(* the thirteen binary operators; "!" is never the operator of a           *)
(* BinaryExpression, and a source such as `a ! b` is rejected by parse.    *)
(***************************************************************************)
\* the node and every node below it
RECURSIVE Nodes(_)
Nodes(node) == {node} \cup UNION {Nodes(child.node) : child \in Children(node)}

C29_BinaryOperators ==
  (call.op = "parse" /\ call.result.ok) =>
    \A node \in Nodes(call.result.v) :
      node.type = "BinaryExpression" => node.operator \in ChainOperators

====
